---------------------------- MODULE Spec2Model ----------------------------
(***************************************************************************)
(* A model of the lahar resource-lifecycle core.                           *)
(*                                                                         *)
(*   ParallelQueue   src/src/parallel_queue.rs   (variables pq_...)        *)
(*   TimelineRing    src/src/timeline_ring.rs    (variables tr_...)        *)
(*   RingState       src/src/ring_state.rs       (variables rs_...)        *)
(*   RingAlloc       src/src/ring_alloc.rs       (variables ra_...)        *)
(*   Graveyard       src/src/graveyard.rs        (variables gy_...)        *)
(*   StagingRing     src/src/staging_ring.rs     (variables sr_...)        *)
(*   AsyncQueue      src/src/async_queue.rs      (variables aq_...)        *)
(*   AppendBuffer    src/src/memory.rs           (variables ab_...)        *)
(*   FenceFactory    src/src/fence.rs            (variables ff_...)        *)
(*   Reactor         src/src/transfer.rs         (variables rx_...)        *)
(*   StagingArena    src/src/staging_arena.rs    (variables sa_...)        *)
(*                                                                         *)
(* Each component has its own specification; the variables of the other    *)
(* components are held at their constructed value.                         *)
(***************************************************************************)
EXTENDS Integers, Sequences, FiniteSets, TLC

(***************************************************************************)
(* Bounds of the model.                                                    *)
(***************************************************************************)
\* number of ParallelQueue handles (producer threads)
NumHandles == 2
\* begin is not called once first_unallocated exceeds MaxSeq
MaxSeq == 3
\* highest value ever signalled on park's auxiliary `wake` semaphore
MaxWake == 1
\* usize is UsizeBits wide
UsizeBits == 4
\* TimelineRing::new is called with a capacity in 1..MaxCap
MaxCap == 3
\* align arguments are drawn from 1..MaxAlign
MaxAlign == 2
\* free_at and tick times are drawn from 0..MaxTime
MaxTime == 2
\* alloc is not called on a ring that holds MaxPending allocations
MaxPending == 2
\* RingAlloc::new is called with a capacity in 1..MaxUnits
MaxUnits == 4
\* RingAlloc::alloc is not called when it would hold more than MaxLive
\* allocations, nor when the Id it would return exceeds MaxId
MaxLive == 3
MaxId == 3
\* Graveyard::new is called with a depth in 1..MaxDepth
MaxDepth == 3
\* number of resources that can be passed to Graveyard::inter
MaxObjects == 3
\* StagingRing::alloc is not called while MaxAllocs Allocs of the current
\* frame and the frames.len() - 1 frames before it are followed
MaxAllocs == 3
\* StagingRing::new is called with 1..MaxFrames frame slots
MaxFrames == 2

(***************************************************************************)
(* Program constants.                                                      *)
(***************************************************************************)
\* command_buffer_count of every allocate_command_buffers call
CmdBatch == 32

\* AsyncQueue handles flush at most MaxFlush command buffers in all
MaxFlush == 3

\* fences obtained from the FenceFactory, and tasks (wakers) awaiting them
MaxFences == 3
MaxWakers == 2

\* TransferHandles alive at once, and operations sent to the Reactor in all
MaxTransferHandles == 2
MaxOps == 3

\* the usize of StagingArena is SAUsizeBits wide, wide enough for the
\* smallest buffer its alloc creates
SAUsizeBits == 13
\* the buffers StagingArena::alloc never makes smaller than twice this
MinGrow == 1024

VARIABLES
    \* ---- ParallelQueue: Shared
    pq_first_unallocated,   \* Shared::first_unallocated (AtomicU64)
    pq_semaphore,           \* counter value of Shared::semaphore
    pq_channel,             \* messages sent on Shared::send, not yet received
    \* ---- ParallelQueue: consumer side
    pq_first_unsubmitted,   \* ParallelQueue::first_unsubmitted
    pq_first_unsignaled,    \* ParallelQueue::first_unsignaled
    pq_pending,             \* ParallelQueue::pending (BinaryHeap<Message>)
    pq_gpu,                 \* batches handed to vkQueueSubmit, not yet complete
    pq_pc,                  \* where the consumer thread is: idle, park, drain
    pq_wake_value,          \* the wake_value argument of the park in progress
    pq_wake,                \* counter value of park's `wake` semaphore
    \* ---- ParallelQueue: per handle
    pq_spare_cmds,          \* Handle::spare_cmds
    pq_in_flight,           \* Handle::in_flight
    pq_pool,                \* number of buffers allocated from Handle::cmd_pool
    pq_hpc,                 \* where the handle's thread is: idle, begin
    pq_time,                \* `time` of the begin in progress
    pq_held,                \* Works returned by begin, not yet passed to end/reset
    \* ---- ParallelQueue: history
    pq_ended,               \* every Work ever passed to end
    pq_executed,            \* Works the GPU has finished, in execution order
    pq_works,               \* every Work ever returned by begin
    pq_base,                \* sequence numbers issued before the first call
                            \* of the behaviour
    \* ---- the build
    debug_build,            \* TRUE: overflow checks and debug assertions are on
    \* ---- TimelineRing
    tr_size,                \* TimelineRing::size
    tr_allocations,         \* TimelineRing::allocations
    tr_head,                \* TimelineRing::head
    tr_tail,                \* TimelineRing::tail
    tr_panicked,            \* a call on the ring has panicked
    tr_wrapped,             \* a subtraction of alloc has wrapped
    \* ---- TimelineRing: history
    tr_sizes,               \* the `size` argument of each pending allocation
    tr_free_at,             \* free_at of the latest successful allocation
    tr_last,                \* the latest call and what it returned
    \* ---- RingState
    rs_head,                \* RingState::head
    rs_tail,                \* RingState::tail
    rs_capacity,            \* RingState::capacity
    \* ---- RingState: the caller
    rs_live,                \* offsets alloc returned, not yet released, oldest first
    rs_last,                \* the latest call, its size argument and its result
    \* ---- RingAlloc
    ra_capacity,            \* RingAlloc::capacity
    ra_allocations,         \* RingAlloc::allocations: (start, freed) pairs
    ra_head,                \* RingAlloc::head
    ra_freed,               \* RingAlloc::freed
    ra_panicked,            \* a call on the RingAlloc has panicked
    \* ---- RingAlloc: history
    ra_ranges,              \* per entry of allocations, the range alloc returned
    ra_last,                \* the latest call and what it returned
    \* ---- Graveyard
    gy_frames,              \* Graveyard::frames: the resources of each Frame
    gy_cursor,              \* Graveyard::cursor
    gy_panicked,            \* a call on the graveyard has panicked
    \* ---- Graveyard: history
    gy_destroyed,           \* per resource, how many times it was destroyed
    gy_age,                 \* per resource, begin_frame calls made while it was
                            \* in a Frame, its destroying call included
    gy_last,                \* the latest call
    \* ---- StagingRing
    sr_head,                \* StagingRing::state.head
    sr_tail,                \* StagingRing::state.tail
    sr_align,               \* StagingRing::align
    sr_buffer,              \* StagingRing::buffer: the handle of the buffer
    sr_size,                \* StagingRing::buffer.size
    sr_old,                 \* StagingRing::old: the handles of replaced buffers
    sr_frames,              \* StagingRing::frames
    sr_current_frame,       \* StagingRing::current_frame
    sr_panicked,            \* "none", or the panic that ended a call
    sr_wrapped,             \* a subtraction of the latest alloc has wrapped
    \* ---- StagingRing: history
    sr_last,                \* the latest call and what it returned
    sr_live,                \* the Allocs returned in the current frame and
                            \* the frames.len() - 1 frames before it
    \* ---- AsyncQueue: Shared
    aq_cmds,                \* pending.batch.cmds
    aq_event,               \* pending.batch.event
    aq_seq,                 \* pending.seq
    aq_dead,                \* pending.dead
    aq_lock,                \* holder of the pending mutex: {}, {0} for the
                            \* queue, {h} for handle h
    aq_highest_batch_sent,  \* Shared::highest_batch_sent
    aq_refcount,            \* Shared::refcount
    aq_batch_available,     \* value of the batch_available semaphore
    aq_batches_complete,    \* value of the batches_complete semaphore
    \* ---- AsyncQueue: the driver
    aq_in_flight,           \* AsyncQueue::in_flight
    aq_batches_received,    \* AsyncQueue::batches_received
    aq_batches_completed,   \* AsyncQueue::batches_completed
    aq_pc,                  \* where the driver's thread is
    aq_running,             \* the driver is inside AsyncQueue::run
    aq_panicked,            \* broadcast_completions drained past the end
    \* ---- AsyncQueue: Handle
    aq_handle,              \* per handle, where its thread is
    aq_h_in_flight,         \* per handle, Handle::in_flight (batch numbers)
    aq_h_spare,             \* per handle, the length of Handle::spare_cmds
    aq_h_seq,               \* per handle, the local `seq` of flush
    \* ---- AsyncQueue: history
    aq_submissions,         \* the batches handed to queue_submit, in order
    aq_set,                 \* the events that have been set
    aq_flushed,             \* the command buffers pushed by flush
    \* ---- AppendBuffer
    ab_buffer,              \* AppendBuffer::buffer: the handle of the buffer
    ab_capacity,            \* AppendBuffer::capacity
    ab_fill,                \* AppendBuffer::fill
    \* ---- AppendBuffer: history
    ab_created,             \* every buffer the AppendBuffer has created
    ab_returned,            \* every buffer an alloc call has returned
    ab_last,                \* the latest call and what it returned
    \* ---- FenceFactory
    ff_fences,              \* FenceFactoryInner::fences
    ff_tasks,               \* FenceFactoryInner::tasks
    ff_submitted,           \* FenceInner::submitted of every fence
    ff_pc,                  \* where FenceFactory::poll stands
    ff_i,                   \* the index i of the loop of poll
    \* ---- FenceFactory: the device
    ff_signalled,           \* fences the device has signalled
    ff_destroyed,           \* fences poll has destroyed
    \* ---- FenceFactory: history
    ff_registered,          \* every (fence, waker) pair pushed
    ff_woken,               \* every (fence, waker) pair removed and woken
    ff_ready,               \* fences whose future returned Poll::Ready
    ff_entered,             \* the pairs signalled as the latest poll began
    ff_last,                \* how the latest call of poll ended
    \* ---- Reactor
    rx_handles,             \* the TransferHandles (senders) that exist
    rx_chan,                \* the channel: messages sent and not received
    rx_pending,             \* Reactor::pending
    rx_in_flight,           \* Reactor::in_flight
    rx_in_flight_fences,    \* Reactor::in_flight_fences
    rx_spare_fences,        \* Reactor::spare_fences
    rx_spare_cmds,          \* Reactor::spare_cmds
    rx_pc,                  \* where the thread of the Reactor stands
    rx_i,                   \* the index i of the scan of run_for
    rx_n,                   \* the end of the range of the scan
    \* ---- Reactor: the device
    rx_gpu,                 \* fences submitted and not yet signalled
    rx_signalled,           \* fences in the signalled state
    rx_created,             \* command buffers and fences created
    \* ---- Reactor: history
    rx_sent,                \* the number of operations sent
    rx_submitted,           \* the batches passed to vkQueueSubmit
    rx_notified,            \* oneshot senders that were sent ()
    rx_last,                \* what the latest run_for returned
    \* ---- StagingArena
    sa_mem,                 \* StagingArena::mem: the handle of the buffer
    sa_mem_size,            \* the size mem was created with
    sa_old,                 \* StagingArena::old: the handles of replaced buffers
    sa_cursor,              \* StagingArena::cursor
    sa_capacity,            \* StagingArena::capacity
    sa_state,               \* "live", "panicked" or "destroyed"
    \* ---- StagingArena: history
    sa_live,                \* the Allocs returned since the latest reset
    sa_last                 \* the latest call and the Alloc it returned

pq_vars == << pq_first_unallocated, pq_semaphore, pq_channel,
              pq_first_unsubmitted, pq_first_unsignaled, pq_pending, pq_gpu,
              pq_pc, pq_wake_value, pq_wake,
              pq_spare_cmds, pq_in_flight, pq_pool, pq_hpc, pq_time, pq_held,
              pq_ended, pq_executed, pq_works, pq_base >>

tr_vars == << debug_build, tr_size, tr_allocations, tr_head, tr_tail,
              tr_panicked, tr_wrapped, tr_sizes, tr_free_at, tr_last >>

rs_vars == << rs_head, rs_tail, rs_capacity, rs_live, rs_last >>

ra_vars == << ra_capacity, ra_allocations, ra_head, ra_freed, ra_panicked,
              ra_ranges, ra_last >>

gy_vars == << gy_frames, gy_cursor, gy_panicked, gy_destroyed, gy_age,
              gy_last >>

sr_vars == << sr_head, sr_tail, sr_align, sr_buffer, sr_size, sr_old,
              sr_frames, sr_current_frame, sr_panicked, sr_wrapped, sr_last,
              sr_live >>

aq_vars == << aq_cmds, aq_event, aq_seq, aq_dead, aq_lock,
              aq_highest_batch_sent, aq_refcount, aq_batch_available,
              aq_batches_complete, aq_in_flight, aq_batches_received,
              aq_batches_completed, aq_pc, aq_running, aq_panicked,
              aq_handle, aq_h_in_flight, aq_h_spare, aq_h_seq,
              aq_submissions, aq_set, aq_flushed >>

ab_vars == << ab_buffer, ab_capacity, ab_fill, ab_created, ab_returned,
              ab_last >>

ff_vars == << ff_fences, ff_tasks, ff_submitted, ff_pc, ff_i, ff_signalled,
              ff_destroyed, ff_registered, ff_woken, ff_ready, ff_entered,
              ff_last >>

rx_vars == << rx_handles, rx_chan, rx_pending, rx_in_flight,
              rx_in_flight_fences, rx_spare_fences, rx_spare_cmds, rx_pc,
              rx_i, rx_n, rx_gpu, rx_signalled, rx_created, rx_sent,
              rx_submitted, rx_notified, rx_last >>

sa_vars == << sa_mem, sa_mem_size, sa_old, sa_cursor, sa_capacity, sa_state,
              sa_live, sa_last >>

vars == << pq_vars, tr_vars, rs_vars, ra_vars, gy_vars, sr_vars, aq_vars, ab_vars, ff_vars, rx_vars, sa_vars >>

\* the variables of the other components
pq_others == << tr_vars, rs_vars, ra_vars, gy_vars, sr_vars, aq_vars, ab_vars, ff_vars, rx_vars, sa_vars >>
tr_others == << pq_vars, rs_vars, ra_vars, gy_vars, sr_vars, aq_vars, ab_vars, ff_vars, rx_vars, sa_vars >>
rs_others == << pq_vars, tr_vars, ra_vars, gy_vars, sr_vars, aq_vars, ab_vars, ff_vars, rx_vars, sa_vars >>
ra_others == << pq_vars, tr_vars, rs_vars, gy_vars, sr_vars, aq_vars, ab_vars, ff_vars, rx_vars, sa_vars >>
gy_others == << pq_vars, tr_vars, rs_vars, ra_vars, sr_vars, aq_vars, ab_vars, ff_vars, rx_vars, sa_vars >>
\* StagingRing::begin_frame writes to the Graveyard it is given
sr_others == << pq_vars, tr_vars, rs_vars, ra_vars, aq_vars, ab_vars, ff_vars, rx_vars, sa_vars >>
aq_others == << pq_vars, tr_vars, rs_vars, ra_vars, gy_vars, sr_vars, ab_vars, ff_vars, rx_vars, sa_vars >>
ab_others == << pq_vars, tr_vars, rs_vars, ra_vars, gy_vars, sr_vars, aq_vars, ff_vars, rx_vars, sa_vars >>
ff_others == << pq_vars, tr_vars, rs_vars, ra_vars, gy_vars, sr_vars, aq_vars, ab_vars, rx_vars, sa_vars >>
rx_others == << pq_vars, tr_vars, rs_vars, ra_vars, gy_vars, sr_vars, aq_vars, ab_vars, ff_vars, sa_vars >>
sa_others == << pq_vars, tr_vars, rs_vars, ra_vars, gy_vars, sr_vars, aq_vars, ab_vars, ff_vars, rx_vars >>

(***************************************************************************)
(* Helpers.                                                                *)
(***************************************************************************)
Range(s) == { s[i] : i \in 1..Len(s) }

Max2(a, b) == IF a >= b THEN a ELSE b

\* the sequence s with its last element removed (Vec::pop)
Front(s) == SubSeq(s, 1, Len(s) - 1)

(***************************************************************************)
(*                            ParallelQueue                                *)
(***************************************************************************)
Handles == 1..NumHandles

\* a command buffer of handle h: the k-th one allocated from its pool
Cmd(h, k) == << h, k >>
NoCmd == << 0, 0 >>

\* struct Work { cmd, time }
Work(cmd, time) == [cmd |-> cmd, time |-> time]

\* enum Message { Execute(Work), Reset(NonZeroU64) }
Message_Execute(work) == [kind |-> "Execute", cmd |-> work.cmd, time |-> work.time]
Message_Reset(time) == [kind |-> "Reset", cmd |-> NoCmd, time |-> time]

\* Message::time
Message_time(m) == m.time

\* impl Ord for Message: the comparison of the times, reversed
Message_cmp(a, b) ==
    IF Message_time(a) < Message_time(b) THEN "Greater"
    ELSE IF Message_time(a) > Message_time(b) THEN "Less"
    ELSE "Equal"

\* BinaryHeap::peek: a greatest element of the heap under Ord
Heap_peek(heap) ==
    CHOOSE m \in heap : \A o \in heap : Message_cmp(o, m) # "Greater"

\* n command buffers allocated from handle h's pool, which holds `pool` already
AllocateCommandBuffers(h, pool, n) == [k \in 1..n |-> Cmd(h, pool + k)]

\* ParallelQueue::new, followed by one Shared::handle per producer
PQInit ==
    /\ pq_first_unallocated = 1
    /\ pq_semaphore = 0
    /\ pq_channel = << >>
    /\ pq_first_unsubmitted = 1
    /\ pq_first_unsignaled = 1
    /\ pq_pending = {}
    /\ pq_gpu = << >>
    /\ pq_pc = "idle"
    /\ pq_wake_value = 0
    /\ pq_wake = 0
    /\ pq_spare_cmds = [h \in Handles |-> AllocateCommandBuffers(h, 0, CmdBatch)]
    /\ pq_in_flight = [h \in Handles |-> << >>]
    /\ pq_pool = [h \in Handles |-> CmdBatch]
    /\ pq_hpc = [h \in Handles |-> "idle"]
    /\ pq_time = [h \in Handles |-> 0]
    /\ pq_held = [h \in Handles |-> {}]
    /\ pq_ended = {}
    /\ pq_executed = << >>
    /\ pq_works = {}
    /\ pq_base = 0

pq_consumer_vars == << pq_first_unsubmitted, pq_first_unsignaled, pq_pending,
                       pq_gpu, pq_pc, pq_wake_value >>
pq_handle_vars == << pq_spare_cmds, pq_in_flight, pq_pool, pq_hpc, pq_time,
                     pq_held, pq_works >>

\* a begin that reads first_unallocated and leaves it as it was
Handle_begin_load(h) ==
    /\ pq_hpc[h] = "idle"
    /\ pq_first_unallocated <= pq_base + MaxSeq
    /\ pq_time' = [pq_time EXCEPT ![h] = pq_first_unallocated]
    /\ pq_hpc' = [pq_hpc EXCEPT ![h] = "begin"]
    /\ UNCHANGED << pq_others, pq_base >>
    /\ UNCHANGED << pq_first_unallocated, pq_semaphore, pq_channel,
                    pq_consumer_vars, pq_wake, pq_spare_cmds, pq_in_flight,
                    pq_pool, pq_held, pq_ended, pq_executed, pq_works >>

\* Handle::begin, first half: the fetch_add on first_unallocated
Handle_begin_fetch_add(h) ==
    /\ pq_hpc[h] = "idle"
    /\ pq_first_unallocated <= pq_base + MaxSeq
    /\ pq_time' = [pq_time EXCEPT ![h] = pq_first_unallocated]
    /\ pq_first_unallocated' = pq_first_unallocated + 1
    /\ pq_hpc' = [pq_hpc EXCEPT ![h] = "begin"]
    /\ UNCHANGED << pq_others, pq_base >>
    /\ UNCHANGED << pq_semaphore, pq_channel, pq_consumer_vars, pq_wake,
                    pq_spare_cmds, pq_in_flight, pq_pool, pq_held,
                    pq_ended, pq_executed, pq_works >>

\* a loop that gives back the buffer of every in_flight work
RECURSIVE Handle_retire_all(_, _, _)
Handle_retire_all(spare, in_flight, complete) ==
    IF in_flight # << >>
    THEN Handle_retire_all(Append(spare, Head(in_flight).cmd), Tail(in_flight),
                           complete)
    ELSE [spare_cmds |-> spare, in_flight |-> in_flight]

\* the while loop of Handle::begin: in_flight works whose time the counter has
\* reached give their buffer back to spare_cmds
RECURSIVE Handle_retire(_, _, _)
Handle_retire(spare, in_flight, complete) ==
    IF in_flight # << >> /\ Head(in_flight).time <= complete
    THEN Handle_retire(Append(spare, Head(in_flight).cmd), Tail(in_flight), complete)
    ELSE [spare_cmds |-> spare, in_flight |-> in_flight]

\* Handle::begin, second half: take a command buffer and return the Work
Handle_begin_acquire(h) ==
    /\ pq_hpc[h] = "begin"
    /\ LET spare == pq_spare_cmds[h]
           retired == Handle_retire(spare, pq_in_flight[h], pq_semaphore)
           grow == spare = << >> /\ retired.spare_cmds = << >>
           filled == IF spare # << >> THEN spare
                     ELSE IF grow
                     THEN AllocateCommandBuffers(h, pq_pool[h], CmdBatch)
                     ELSE retired.spare_cmds
           flight == IF spare # << >> THEN pq_in_flight[h] ELSE retired.in_flight
           cmd == filled[Len(filled)]
           work == Work(cmd, pq_time[h])
       IN  /\ pq_spare_cmds' = [pq_spare_cmds EXCEPT ![h] = Front(filled)]
           /\ pq_pool' = [pq_pool EXCEPT ![h] = IF grow THEN @ + CmdBatch ELSE @]
           /\ pq_in_flight' = [pq_in_flight EXCEPT ![h] = Append(flight, work)]
           /\ pq_held' = [pq_held EXCEPT ![h] = @ \cup {work}]
           /\ pq_works' = pq_works \cup {work}
    /\ pq_hpc' = [pq_hpc EXCEPT ![h] = "idle"]
    /\ UNCHANGED << pq_others, pq_base >>
    /\ UNCHANGED << pq_first_unallocated, pq_semaphore, pq_channel,
                    pq_consumer_vars, pq_wake, pq_time, pq_ended, pq_executed >>

\* Handle::end
Handle_end(h, work) ==
    /\ pq_hpc[h] = "idle"
    /\ work \in pq_held[h]
    /\ pq_channel' = Append(pq_channel, Message_Execute(work))
    /\ pq_held' = [pq_held EXCEPT ![h] = @ \ {work}]
    /\ pq_ended' = pq_ended \cup {work}
    /\ UNCHANGED << pq_others, pq_base >>
    /\ UNCHANGED << pq_first_unallocated, pq_semaphore, pq_consumer_vars,
                    pq_wake, pq_spare_cmds, pq_in_flight, pq_pool, pq_hpc,
                    pq_time, pq_executed, pq_works >>

\* a reset that sends nothing
Handle_reset_no_send(channel, work) == channel

\* the send of Handle::reset
Handle_reset_send(channel, work) == Append(channel, Message_Reset(work.time))

\* Handle::reset
Handle_reset(h, work) ==
    /\ pq_hpc[h] = "idle"
    /\ work \in pq_held[h]
    /\ pq_channel' = Handle_reset_send(pq_channel, work)
    /\ pq_held' = [pq_held EXCEPT ![h] = @ \ {work}]
    /\ UNCHANGED << pq_others, pq_base >>
    /\ UNCHANGED << pq_first_unallocated, pq_semaphore, pq_consumer_vars,
                    pq_wake, pq_spare_cmds, pq_in_flight, pq_pool, pq_hpc,
                    pq_time, pq_ended, pq_executed, pq_works >>

\* a loop condition that takes whatever the heap holds next
drive_next_ignores_gap(heap, first_unsubmitted) == heap # {}

\* the condition of the second while loop of ParallelQueue::drive
drive_next_is_contiguous(heap, first_unsubmitted) ==
    /\ heap # {}
    /\ Message_time(Heap_peek(heap)) = first_unsubmitted

\* a loop that stops after one message
drive_pop_one(heap, first_unsubmitted, cmds) ==
    IF heap # {} /\ Message_time(Heap_peek(heap)) = first_unsubmitted
    THEN LET m == Heap_peek(heap)
         IN  [pending |-> heap \ {m},
              first_unsubmitted |-> first_unsubmitted + 1,
              cmds |-> IF m.kind = "Execute"
                       THEN Append(cmds, Work(m.cmd, m.time))
                       ELSE cmds]
    ELSE [pending |-> heap, first_unsubmitted |-> first_unsubmitted, cmds |-> cmds]

\* a loop that puts each command buffer in front of the ones it already took
RECURSIVE drive_pop_run_reversed(_, _, _)
drive_pop_run_reversed(heap, first_unsubmitted, cmds) ==
    IF heap # {} /\ Message_time(Heap_peek(heap)) = first_unsubmitted
    THEN LET m == Heap_peek(heap)
         IN  drive_pop_run_reversed(heap \ {m}, first_unsubmitted + 1,
                                    IF m.kind = "Execute"
                                    THEN << Work(m.cmd, m.time) >> \o cmds
                                    ELSE cmds)
    ELSE [pending |-> heap, first_unsubmitted |-> first_unsubmitted, cmds |-> cmds]

\* the second while loop of ParallelQueue::drive
RECURSIVE drive_pop_run(_, _, _)
drive_pop_run(heap, first_unsubmitted, cmds) ==
    IF drive_next_is_contiguous(heap, first_unsubmitted)
    THEN LET m == Heap_peek(heap)
         IN  drive_pop_run(heap \ {m}, first_unsubmitted + 1,
                           IF m.kind = "Execute"
                           THEN Append(cmds, Work(m.cmd, m.time))
                           ELSE cmds)
    ELSE [pending |-> heap, first_unsubmitted |-> first_unsubmitted, cmds |-> cmds]

\* a batch that signals 1 whatever it holds
drive_signal_value_first(first_unsubmitted) == 1

\* a batch that signals first_unsubmitted itself
drive_signal_value_off_by_one(first_unsubmitted) == first_unsubmitted

\* the value the batch signals on the semaphore
drive_signal_value(first_unsubmitted) == first_unsubmitted - 1

\* ParallelQueue::drive.  The try_recv loop ends when it finds the channel
\* empty, so it moves to the heap exactly the messages sent before that
\* moment; the rest of drive touches only the consumer's own state.
ParallelQueue_drive ==
    /\ pq_pc = "idle"
    /\ LET received == pq_pending \cup Range(pq_channel)
           run == drive_pop_run(received, pq_first_unsubmitted, << >>)
       IN  /\ pq_channel' = << >>
           /\ pq_pending' = run.pending
           /\ pq_first_unsubmitted' = run.first_unsubmitted
           /\ pq_gpu' = IF run.cmds = << >> THEN pq_gpu
                        ELSE Append(pq_gpu, [cmds |-> run.cmds,
                                             signal |-> drive_signal_value(run.first_unsubmitted)])
    /\ UNCHANGED << pq_others, pq_base >>
    /\ UNCHANGED << pq_first_unallocated, pq_semaphore, pq_first_unsignaled,
                    pq_pc, pq_wake_value, pq_wake,
                    pq_handle_vars, pq_ended, pq_executed >>

\* the device finishes the oldest submitted batch and signals its value
Gpu_complete ==
    /\ pq_gpu # << >>
    /\ pq_semaphore' = Head(pq_gpu).signal
    /\ pq_executed' = pq_executed \o Head(pq_gpu).cmds
    /\ pq_gpu' = Tail(pq_gpu)
    /\ UNCHANGED << pq_others, pq_base >>
    /\ UNCHANGED << pq_first_unallocated, pq_channel, pq_first_unsubmitted,
                    pq_first_unsignaled, pq_pending, pq_pc, pq_wake_value,
                    pq_wake, pq_handle_vars, pq_ended >>

\* another thread signals park's `wake` semaphore
Wake_signal ==
    /\ pq_wake < MaxWake
    /\ pq_wake' = pq_wake + 1
    /\ UNCHANGED << pq_others, pq_base >>
    /\ UNCHANGED << pq_first_unallocated, pq_semaphore, pq_channel,
                    pq_consumer_vars, pq_handle_vars, pq_ended, pq_executed >>

\* ParallelQueue::park is entered
ParallelQueue_park_call(wake_value) ==
    /\ pq_pc = "idle"
    /\ pq_pc' = "park"
    /\ pq_wake_value' = wake_value
    /\ UNCHANGED << pq_others, pq_base >>
    /\ UNCHANGED << pq_first_unallocated, pq_semaphore, pq_channel,
                    pq_first_unsubmitted, pq_first_unsignaled, pq_pending,
                    pq_gpu, pq_wake, pq_handle_vars, pq_ended,
                    pq_executed >>

\* the wait_semaphores of park: SemaphoreWaitInfo::default() leaves `flags`
\* empty, and without SemaphoreWaitFlags::ANY vkWaitSemaphores returns when
\* every semaphore of the list has reached its value
park_wait_satisfied ==
    /\ pq_semaphore >= pq_first_unsignaled
    /\ pq_wake >= pq_wake_value

\* ParallelQueue::park returns `complete`, the counter value it reads, which
\* is pq_first_unsignaled' - 1
ParallelQueue_park_return ==
    /\ pq_pc = "park"
    /\ park_wait_satisfied
    /\ pq_first_unsignaled' = pq_semaphore + 1
    /\ pq_pc' = "idle"
    /\ UNCHANGED << pq_others, pq_base >>
    /\ UNCHANGED << pq_first_unallocated, pq_semaphore, pq_channel,
                    pq_first_unsubmitted, pq_pending, pq_gpu, pq_wake_value,
                    pq_wake, pq_handle_vars, pq_ended, pq_executed >>

\* ParallelQueue::drain is entered
ParallelQueue_drain_call ==
    /\ pq_pc = "idle"
    /\ pq_pc' = "drain"
    /\ UNCHANGED << pq_others, pq_base >>
    /\ UNCHANGED << pq_first_unallocated, pq_semaphore, pq_channel,
                    pq_first_unsubmitted, pq_first_unsignaled, pq_pending,
                    pq_gpu, pq_wake_value, pq_wake, pq_handle_vars,
                    pq_ended, pq_executed >>

\* the wait_semaphores of drain
drain_wait_satisfied == pq_semaphore >= pq_first_unsubmitted - 1

\* ParallelQueue::drain returns
ParallelQueue_drain_return ==
    /\ pq_pc = "drain"
    /\ drain_wait_satisfied
    /\ pq_first_unsignaled' = pq_first_unsubmitted
    /\ pq_pc' = "idle"
    /\ UNCHANGED << pq_others, pq_base >>
    /\ UNCHANGED << pq_first_unallocated, pq_semaphore, pq_channel,
                    pq_first_unsubmitted, pq_pending, pq_gpu, pq_wake_value,
                    pq_wake, pq_handle_vars, pq_ended, pq_executed >>


PQProducerNext ==
    \/ \E h \in Handles : Handle_begin_fetch_add(h)
    \/ \E h \in Handles : Handle_begin_acquire(h)
    \/ \E h \in Handles : \E work \in pq_held[h] : Handle_end(h, work)
    \/ \E h \in Handles : \E work \in pq_held[h] : Handle_reset(h, work)

\* the consumer only drives
PQNext ==
    \/ PQProducerNext
    \/ ParallelQueue_drive
    \/ Gpu_complete

\* the consumer drives, parks and drains
PQWaitNext ==
    \/ PQProducerNext
    \/ ParallelQueue_drive
    \/ Gpu_complete
    \/ Wake_signal
    \/ \E wake_value \in 1..MaxWake : ParallelQueue_park_call(wake_value)
    \/ ParallelQueue_park_return
    \/ ParallelQueue_drain_call
    \/ ParallelQueue_drain_return

\* the Works of handle h's first CmdBatch calls of begin: the i-th takes
\* the last of the spare buffers and the sequence number i
PQFirstWorks(h) == [i \in 1..CmdBatch |-> Work(Cmd(h, CmdBatch + 1 - i), i)]

\* The queue after handle h has used up the command buffers it was created
\* with: it began and ended CmdBatch Works; the first `done` of them were
\* ended before a call of drive that submitted them as one batch, which
\* the device has completed; the messages of the others are in the channel.
PQUsedUp(h, done) ==
    LET works == PQFirstWorks(h)
    IN  /\ pq_first_unallocated = CmdBatch + 1
        /\ pq_semaphore = done
        /\ pq_channel = [i \in 1..(CmdBatch - done) |-> Message_Execute(works[done + i])]
        /\ pq_first_unsubmitted = done + 1
        /\ pq_first_unsignaled = 1
        /\ pq_pending = {}
        /\ pq_gpu = << >>
        /\ pq_pc = "idle"
        /\ pq_wake_value = 0
        /\ pq_wake = 0
        /\ pq_spare_cmds = [g \in Handles |->
                               IF g = h THEN << >>
                               ELSE AllocateCommandBuffers(g, 0, CmdBatch)]
        /\ pq_in_flight = [g \in Handles |-> IF g = h THEN works ELSE << >>]
        /\ pq_pool = [g \in Handles |-> CmdBatch]
        /\ pq_hpc = [g \in Handles |-> "idle"]
        /\ pq_time = [g \in Handles |-> IF g = h THEN CmdBatch ELSE 0]
        /\ pq_held = [g \in Handles |-> {}]
        /\ pq_ended = Range(works)
        /\ pq_executed = SubSeq(works, 1, done)
        /\ pq_works = Range(works)
        /\ pq_base = CmdBatch

\* handle 1 has used up its first command buffers; none, all but one or all
\* of its Works are complete
PQReuseInit == \E done \in { 0, CmdBatch - 1, CmdBatch } : PQUsedUp(1, done)

(***************************************************************************)
(*                             TimelineRing                                *)
(***************************************************************************)
\* usize arithmetic is modulo Usize
Usize == 2 ^ UsizeBits

\* a - b on usize in a build without overflow checks
wrapping_sub(a, b) == (a - b) % Usize

\* Option<usize>
Some(x) == [some |-> TRUE, value |-> x]
None == [some |-> FALSE, value |-> 0]

\* struct Alloc { free_at, offset }
Alloc(free_at, offset) == [free_at |-> free_at, offset |-> offset]

\* the record kept of the latest call: alloc returns an Option<usize>, tick a
\* bool (kept in `some`)
Call(op, ret) == [op |-> op, ret |-> ret]
Bool(b) == [some |-> b, value |-> 0]

\* TimelineRing::new(capacity), in a build with (debug) or without overflow
\* checks and debug assertions
TimelineRing_new(capacity, debug) ==
    /\ debug_build = debug
    /\ tr_size = capacity + 1
    /\ tr_allocations = << >>
    /\ tr_head = 0
    /\ tr_tail = 0
    /\ tr_panicked = FALSE
    /\ tr_wrapped = FALSE
    /\ tr_sizes = << >>
    /\ tr_free_at = 0
    /\ tr_last = Call("new", None)

\* TimelineRing::capacity
TimelineRing_capacity == tr_size - 1

\* a free that counts the byte kept between head and tail
TimelineRing_free_no_reserve ==
    IF tr_head > tr_tail THEN tr_head - tr_tail
    ELSE Max2(tr_head, tr_size - tr_tail)

\* TimelineRing::free
TimelineRing_free ==
    IF tr_head > tr_tail THEN tr_head - tr_tail - 1
    ELSE Max2(tr_head, tr_size - tr_tail - 1)

\* where TimelineRing::alloc places a request: `underflow` tells whether one
\* of its subtractions went below zero, `ret` is what alloc returns when the
\* subtraction wraps
TimelineRing_alloc_place(ring_size, head, tail, size, align) ==
    IF head > tail
    THEN LET unaligned == wrapping_sub(head, size)
             aligned == unaligned - (unaligned % align)
         IN  [underflow |-> size > head,
              ret |-> IF aligned <= tail THEN None ELSE Some(aligned)]
    ELSE IF head >= size
    THEN LET lowered == head - size
         IN  [underflow |-> FALSE, ret |-> Some(lowered - (lowered % align))]
    ELSE LET unaligned == wrapping_sub(ring_size, size)
             aligned == unaligned - (unaligned % align)
         IN  [underflow |-> size > ring_size,
              ret |-> IF aligned <= tail THEN None ELSE Some(aligned)]

\* the end of TimelineRing::alloc: the allocation is recorded and its offset
\* returned, or None is returned
TimelineRing_alloc_return(ret, size, free_at) ==
    IF ret.some
    THEN /\ Len(tr_allocations) < MaxPending
         /\ tr_head' = ret.value
         /\ tr_allocations' = Append(tr_allocations, Alloc(free_at, ret.value))
         /\ tr_sizes' = Append(tr_sizes, size)
         /\ tr_free_at' = free_at
         /\ tr_last' = Call("alloc", ret)
         /\ UNCHANGED tr_panicked
    ELSE /\ tr_last' = Call("alloc", None)
         /\ UNCHANGED << tr_head, tr_allocations, tr_sizes, tr_free_at,
                         tr_panicked >>

\* TimelineRing::alloc.  A subtraction that underflows panics in a build with
\* overflow checks and wraps in a build without.  A call whose subtraction
\* wrapped leaves head wherever the wrapped value fell: the model records
\* that call and follows the ring through the ticks made after it, and
\* through no later alloc.
TimelineRing_alloc(size, align, free_at) ==
    /\ ~tr_panicked
    /\ ~tr_wrapped
    /\ free_at >= tr_free_at
    /\ LET place == TimelineRing_alloc_place(tr_size, tr_head, tr_tail, size, align)
       IN  IF place.underflow /\ debug_build
           THEN /\ tr_panicked' = TRUE
                /\ tr_last' = Call("alloc", None)
                /\ UNCHANGED << tr_head, tr_allocations, tr_sizes, tr_free_at,
                                tr_wrapped >>
           ELSE /\ tr_wrapped' = place.underflow
                /\ TimelineRing_alloc_return(place.ret, size, free_at)
    /\ UNCHANGED tr_others
    /\ UNCHANGED << debug_build, tr_size, tr_tail >>

\* a tick that leaves the allocations due exactly at `time`
tick_front_is_due_strict(allocations, time) ==
    /\ allocations # << >>
    /\ Head(allocations).free_at < time

\* whether the front allocation is due at `time`
tick_front_is_due(allocations, time) ==
    /\ allocations # << >>
    /\ Head(allocations).free_at <= time

\* the loop of TimelineRing::tick; `failed` tells that the debug_assert fired
RECURSIVE tick_loop(_, _, _, _, _, _, _)
tick_loop(allocations, sizes, head, tail, ring_size, time, debug) ==
    IF ~tick_front_is_due(allocations, time)
    THEN [allocations |-> allocations, sizes |-> sizes, head |-> head,
          tail |-> tail, failed |-> FALSE]
    ELSE LET alloc == Head(allocations)
             rest == Tail(allocations)
         IN  IF alloc.offset = head
             THEN IF debug /\ rest # << >>
                  THEN [allocations |-> rest, sizes |-> Tail(sizes),
                        head |-> head, tail |-> alloc.offset, failed |-> TRUE]
                  ELSE tick_loop(rest, Tail(sizes), ring_size - 1,
                                 ring_size - 1, ring_size, time, debug)
             ELSE tick_loop(rest, Tail(sizes), head, alloc.offset, ring_size,
                            time, debug)

\* TimelineRing::tick
TimelineRing_tick(time) ==
    /\ ~tr_panicked
    /\ LET end == tick_loop(tr_allocations, tr_sizes, tr_head, tr_tail,
                            tr_size, time, debug_build)
       IN  /\ tr_allocations' = end.allocations
           /\ tr_sizes' = end.sizes
           /\ tr_head' = end.head
           /\ tr_tail' = end.tail
           /\ tr_panicked' = end.failed
           /\ tr_last' = Call("tick",
                              Bool(Len(end.allocations) # Len(tr_allocations)))
    /\ UNCHANGED tr_others
    /\ UNCHANGED << debug_build, tr_size, tr_free_at, tr_wrapped >>

\* the sizes alloc is called with: small ones, up to past the ring's size, and
\* the two largest values of usize
TRSizes == 0..(MaxCap + 2) \cup { Usize - 2, Usize - 1 }
TRAligns == 1..MaxAlign
TRTimes == 0..MaxTime

TRInit ==
    \E capacity \in 1..MaxCap : \E debug \in BOOLEAN :
        TimelineRing_new(capacity, debug)

TRNext ==
    \/ \E size \in TRSizes : \E align \in TRAligns : \E free_at \in TRTimes :
           TimelineRing_alloc(size, align, free_at)
    \/ \E time \in TRTimes : TimelineRing_tick(time)

\* as TRNext, with no call of alloc for zero bytes
TRPosNext ==
    \/ \E size \in TRSizes \ {0} : \E align \in TRAligns : \E free_at \in TRTimes :
           TimelineRing_alloc(size, align, free_at)
    \/ \E time \in TRTimes : TimelineRing_tick(time)

(***************************************************************************)
(*                               RingState                                 *)
(***************************************************************************)
\* usize::checked_sub with every result going to Some
checked_sub_wrapping(a, b) == Some((a - b) % Usize)

\* usize::checked_sub
checked_sub(a, b) == IF b > a THEN None ELSE Some(a - b)

\* the record kept of the latest call on a RingState
RSCall(op, size, ret) == [op |-> op, size |-> size, ret |-> ret]

\* RingState::new(capacity)
RingState_new(capacity) ==
    /\ rs_head = 0
    /\ rs_tail = 0
    /\ rs_capacity = capacity
    /\ rs_live = << >>
    /\ rs_last = RSCall("new", 0, None)

\* a placement that also takes an offset equal to tail
RingState_alloc_place_onto_tail(capacity, head, tail, size, align) ==
    LET from == IF head > tail \/ head >= size THEN head ELSE capacity
        aligned == (from - size) - ((from - size) % align)
    IN  IF size > from THEN None
        ELSE IF head <= tail /\ head >= size THEN Some(aligned)
        ELSE IF aligned < tail THEN None
        ELSE Some(aligned)

\* what RingState::alloc returns; a returned offset is the new head
RingState_alloc_place(capacity, head, tail, size, align) ==
    IF head > tail
    THEN LET unaligned == checked_sub(head, size)
             aligned == unaligned.value - (unaligned.value % align)
         IN  IF ~unaligned.some THEN None
             ELSE IF aligned <= tail THEN None
             ELSE Some(aligned)
    ELSE IF head >= size
    THEN LET lowered == head - size
         IN  Some(lowered - (lowered % align))
    ELSE LET unaligned == checked_sub(capacity, size)
             aligned == unaligned.value - (unaligned.value % align)
         IN  IF ~unaligned.some THEN None
             ELSE IF aligned <= tail THEN None
             ELSE Some(aligned)

\* RingState::alloc
RingState_alloc(size, align) ==
    /\ LET ret == RingState_alloc_place(rs_capacity, rs_head, rs_tail, size, align)
       IN  /\ rs_last' = RSCall("alloc", size, ret)
           /\ IF ret.some
              THEN /\ Len(rs_live) < MaxPending
                   /\ rs_head' = ret.value
                   /\ rs_live' = Append(rs_live, ret.value)
              ELSE UNCHANGED << rs_head, rs_live >>
    /\ UNCHANGED rs_others
    /\ UNCHANGED << rs_tail, rs_capacity >>

\* the owner of the RingState releases its oldest allocation by moving the
\* public `tail` onto that allocation's offset
RingState_release ==
    /\ rs_live # << >>
    /\ rs_tail' = Head(rs_live)
    /\ rs_live' = Tail(rs_live)
    /\ rs_last' = RSCall("release", 0, None)
    /\ UNCHANGED rs_others
    /\ UNCHANGED << rs_head, rs_capacity >>

RSSizes == 0..(MaxCap + 2) \cup { Usize - 1 }
RSAligns == 1..MaxAlign

RSInit == \E capacity \in 1..MaxCap : RingState_new(capacity)

RSNext ==
    \/ \E size \in RSSizes : \E align \in RSAligns : RingState_alloc(size, align)
    \/ RingState_release

(***************************************************************************)
(*                               RingAlloc                                 *)
(***************************************************************************)
\* an entry of RingAlloc::allocations: (usize, bool)
RAEntry(start, freed) == [start |-> start, freed |-> freed]

\* the units [lo, hi) handed out by an alloc
RARange(lo, hi) == [lo |-> lo, hi |-> hi]

\* the record kept of the latest call: alloc returns Option<(usize, Id)>
RACall(op, ret, id) == [op |-> op, ret |-> ret, id |-> id]

\* RingAlloc::new(capacity)
RingAlloc_new(capacity) ==
    /\ ra_capacity = capacity
    /\ ra_allocations = << >>
    /\ ra_head = 0
    /\ ra_freed = 0
    /\ ra_panicked = FALSE
    /\ ra_ranges = << >>
    /\ ra_last = RACall("new", None, 0)

\* the padding RingAlloc::alloc puts in front of an allocation at `head`
alloc_padding(head, align) ==
    LET misalignment == head % align
    IN  IF misalignment = 0 THEN 0 ELSE align - misalignment

\* the outcome of RingAlloc::alloc: `overflow` tells whether size + padding
\* exceeded usize; `ret` is the offset returned, `id` the Id returned with it,
\* `start` the start pushed onto allocations, `head` the head left behind and
\* `reset` whether the call went through the no-allocations branch
RAOutcome(overflow, ret, id, start, head, reset) ==
    [overflow |-> overflow, ret |-> ret, id |-> id, start |-> start,
     head |-> head, reset |-> reset]

\* a head that runs past the end of the buffer
alloc_next_head_no_wrap(start, size, capacity) == start + size

\* the head left by an allocation placed between head and the end of the buffer
alloc_next_head(start, size, capacity) == (start + size) % capacity

\* the body of RingAlloc::alloc
RingAlloc_alloc_place(capacity, allocations, head, freed, size, align) ==
    IF allocations = << >>
    THEN IF size > capacity
         THEN RAOutcome(FALSE, None, 0, 0, head, FALSE)
         ELSE RAOutcome(FALSE, Some(0), 0, 0, size, TRUE)
    ELSE LET tail == Head(allocations).start
             padding == alloc_padding(head, align)
             padded == (size + padding) % Usize
             overflow == size + padding >= Usize
             id == freed + Len(allocations)
         IN  IF head > tail
             THEN IF capacity - head >= padded
                  THEN RAOutcome(overflow, Some(head + padding), id, head,
                                 alloc_next_head(head, padded, capacity), FALSE)
                  ELSE IF tail >= padded
                  THEN RAOutcome(overflow, Some(0), id, 0, padded, FALSE)
                  ELSE RAOutcome(overflow, None, id, 0, head, FALSE)
             ELSE IF tail - head >= padded
                  THEN RAOutcome(overflow, Some(head + padding), id, head,
                                 head + padded, FALSE)
                  ELSE RAOutcome(overflow, None, id, 0, head, FALSE)

\* RingAlloc::alloc.  size + padding beyond usize panics in a build with
\* overflow checks and wraps in a build without.
RingAlloc_alloc(size, align) ==
    /\ ~ra_panicked
    /\ LET out == RingAlloc_alloc_place(ra_capacity, ra_allocations, ra_head,
                                        ra_freed, size, align)
       IN  IF out.overflow /\ debug_build
           THEN /\ ra_panicked' = TRUE
                /\ ra_last' = RACall("alloc", None, 0)
                /\ UNCHANGED << ra_allocations, ra_head, ra_freed, ra_ranges >>
           ELSE IF out.ret.some
           THEN /\ Len(ra_allocations) < MaxLive
                /\ out.id <= MaxId
                /\ ra_allocations' = Append(ra_allocations, RAEntry(out.start, FALSE))
                /\ ra_head' = out.head
                /\ ra_freed' = IF out.reset THEN 0 ELSE ra_freed
                /\ ra_ranges' = Append(ra_ranges,
                                       RARange(out.ret.value, out.ret.value + size))
                /\ ra_last' = RACall("alloc", out.ret, out.id)
                /\ UNCHANGED ra_panicked
           ELSE /\ ra_last' = RACall("alloc", None, 0)
                /\ UNCHANGED << ra_allocations, ra_head, ra_freed, ra_ranges,
                                ra_panicked >>
    /\ UNCHANGED ra_others
    /\ UNCHANGED ra_capacity

\* the while loop of RingAlloc::free: freed entries leave the front
RECURSIVE free_pop_front(_, _, _)
free_pop_front(allocations, ranges, freed) ==
    IF allocations # << >> /\ Head(allocations).freed
    THEN free_pop_front(Tail(allocations), Tail(ranges), freed + 1)
    ELSE [allocations |-> allocations, ranges |-> ranges, freed |-> freed]

\* the Ids that were returned by alloc and not yet passed to free
RAOutstanding ==
    { ra_freed + (i - 1) : i \in { j \in 1..Len(ra_allocations) :
                                      ~ra_allocations[j].freed } }

\* RingAlloc::free(id), for an Id not freed before
RingAlloc_free(id) ==
    /\ ~ra_panicked
    /\ id \in RAOutstanding
    /\ LET index == (id - ra_freed) + 1
           marked == [ra_allocations EXCEPT ![index].freed = TRUE]
           popped == free_pop_front(marked, ra_ranges, ra_freed)
       IN  /\ ra_allocations' = popped.allocations
           /\ ra_ranges' = popped.ranges
           /\ ra_freed' = popped.freed
    /\ ra_last' = RACall("free", None, id)
    /\ UNCHANGED ra_others
    /\ UNCHANGED << ra_capacity, ra_head, ra_panicked >>

\* an available that reports the free space of an empty ring when
\* head = tail
RingAlloc_available_full_as_empty ==
    IF ra_allocations = << >> THEN ra_capacity
    ELSE LET tail == Head(ra_allocations).start
         IN  IF ra_head < tail THEN tail - ra_head
             ELSE Max2(tail, ra_capacity - ra_head)

\* RingAlloc::available
RingAlloc_available ==
    IF ra_allocations = << >> THEN ra_capacity
    ELSE LET tail == Head(ra_allocations).start
         IN  IF ra_head = tail THEN 0
             ELSE IF ra_head < tail THEN tail - ra_head
             ELSE Max2(tail, ra_capacity - ra_head)

RASizes == 0..(MaxUnits + 1) \cup { Usize - 1 }
RAAligns == 1..MaxAlign
RAIds == 0..MaxId

RAInit == \E capacity \in 1..MaxUnits : RingAlloc_new(capacity)

RANext ==
    \/ \E size \in RASizes : \E align \in RAAligns : RingAlloc_alloc(size, align)
    \/ \E id \in RAIds : RingAlloc_free(id)

(***************************************************************************)
(*                               Graveyard                                 *)
(***************************************************************************)
\* the resources (buffers, images, image views, memories) handed to inter
Objects == 1..MaxObjects

\* Graveyard::depth
Graveyard_depth == Cardinality(DOMAIN gy_frames)

\* the resources held in some Frame
Buried(frames) == UNION { frames[i] : i \in DOMAIN frames }

\* Graveyard::new(depth)
Graveyard_new(depth) ==
    /\ gy_frames = [i \in 0..(depth - 1) |-> {}]
    /\ gy_cursor = 0
    /\ gy_panicked = FALSE
    /\ gy_destroyed = [o \in Objects |-> 0]
    /\ gy_age = [o \in Objects |-> 0]
    /\ gy_last = "new"

\* a cursor that stays where it is
cursor_advance_none(cursor, len) == cursor

\* the cursor update of begin_frame: self.cursor + 1 % self.frames.len(),
\* where % binds tighter than +
cursor_advance(cursor, len) == cursor + (1 % len)

\* the graveyard as a value, for the steps of begin_frame and clear
GYState(frames, cursor, panicked, destroyed, age) ==
    [frames |-> frames, cursor |-> cursor, panicked |-> panicked,
     destroyed |-> destroyed, age |-> age]

\* Graveyard::begin_frame on the graveyard g: indexing frames at a cursor
\* outside it panics, after the cursor was written
begin_frame_step(g) ==
    LET len == Cardinality(DOMAIN g.frames)
        cursor == cursor_advance(g.cursor, len)
    IN  IF cursor \notin DOMAIN g.frames
        THEN GYState(g.frames, cursor, TRUE, g.destroyed, g.age)
        ELSE GYState([g.frames EXCEPT ![cursor] = {}],
                     cursor,
                     FALSE,
                     [o \in Objects |-> IF o \in g.frames[cursor]
                                        THEN g.destroyed[o] + 1
                                        ELSE g.destroyed[o]],
                     [o \in Objects |-> IF o \in Buried(g.frames) /\ g.age[o] < len
                                        THEN g.age[o] + 1
                                        ELSE g.age[o]])

\* the loop of Graveyard::clear: n more calls of begin_frame
RECURSIVE clear_loop(_, _)
clear_loop(g, n) ==
    IF n = 0 \/ g.panicked THEN g
    ELSE clear_loop(begin_frame_step(g), n - 1)

GYNow == GYState(gy_frames, gy_cursor, gy_panicked, gy_destroyed, gy_age)

GYBecomes(g) ==
    /\ gy_frames' = g.frames
    /\ gy_cursor' = g.cursor
    /\ gy_panicked' = g.panicked
    /\ gy_destroyed' = g.destroyed
    /\ gy_age' = g.age

\* Graveyard::begin_frame
Graveyard_begin_frame ==
    /\ ~gy_panicked
    /\ GYBecomes(begin_frame_step(GYNow))
    /\ gy_last' = "begin_frame"
    /\ UNCHANGED gy_others

\* Graveyard::inter, for a resource not handed over before
Graveyard_inter(obj) ==
    /\ ~gy_panicked
    /\ obj \notin Buried(gy_frames)
    /\ gy_destroyed[obj] = 0
    /\ gy_frames' = [gy_frames EXCEPT ![gy_cursor] = @ \cup {obj}]
    /\ gy_last' = "inter"
    /\ UNCHANGED gy_others
    /\ UNCHANGED << gy_cursor, gy_panicked, gy_destroyed, gy_age >>

\* Graveyard::clear
Graveyard_clear ==
    /\ ~gy_panicked
    /\ GYBecomes(clear_loop(GYNow, Graveyard_depth))
    /\ gy_last' = "clear"
    /\ UNCHANGED gy_others

GYInit == \E depth \in 1..MaxDepth : Graveyard_new(depth)

GYNext ==
    \/ \E obj \in Objects : Graveyard_inter(obj)
    \/ Graveyard_begin_frame
    \/ Graveyard_clear

(***************************************************************************)
(*                              StagingRing                                *)
(***************************************************************************)
\* the record kept of the latest call: grew tells whether alloc replaced
\* the buffer, ret is the offset of the Alloc it returned
SRCall(op, grew, ret) == [op |-> op, grew |-> grew, ret |-> ret]

\* StagingRing::new(device, props, limits, frames, capacity), with
\* limits.optimal_buffer_copy_offset_alignment = align
StagingRing_new(frames, capacity, align) ==
    /\ sr_head = 0
    /\ sr_tail = 0
    /\ sr_align = align
    /\ sr_buffer = 1
    /\ sr_size = capacity
    /\ sr_old = {}
    /\ sr_frames = [i \in 0..(frames - 1) |-> 0]
    /\ sr_current_frame = 0
    /\ sr_panicked = "none"
    /\ sr_wrapped = FALSE
    /\ sr_last = SRCall("new", FALSE, None)
    /\ sr_live = {}

\* an Alloc { buffer, offset } returned for n bytes, age frames ago
SRAlloc(buffer, offset, n, age) ==
    [buffer |-> buffer, offset |-> offset, n |-> n, age |-> age]

\* the Allocs to remember after a call that returned ret for n bytes in buffer
SRLiveAfter(buffer, ret, n) ==
    IF ret.some THEN sr_live \cup { SRAlloc(buffer, ret.value, n, 0) } ELSE sr_live

\* what one call of the private RingState::alloc does: whether a
\* subtraction underflowed, the value returned and the head it leaves
SROutcome(overflow, ret, head) ==
    [overflow |-> overflow, ret |-> ret, head |-> head]

\* unaligned - unaligned % align
align_down(unaligned, align) == unaligned - (unaligned % align)

\* the private RingState::alloc of staging_ring.rs, on a state (head, tail)
staging_RingState_alloc(head, tail, capacity, size, align) ==
    IF head > tail
    THEN LET aligned == align_down(wrapping_sub(head, size), align)
         IN  IF aligned <= tail
             THEN SROutcome(size > head, None, head)
             ELSE SROutcome(size > head, Some(aligned), aligned)
    ELSE IF head >= size
    THEN LET aligned == align_down(head - size, align)
         IN  SROutcome(FALSE, Some(aligned), aligned)
    ELSE LET aligned == align_down(wrapping_sub(capacity, size), align)
         IN  IF aligned <= tail
             THEN SROutcome(size > capacity, None, head)
             ELSE SROutcome(size > capacity, Some(aligned), aligned)

\* the size of the buffer StagingRing::grow creates
grow_new_size(min_increment, size) == Max2(min_increment, size * 2)

\* StagingRing::alloc(device, n, align).  A subtraction that underflows
\* panics in a build with overflow checks and wraps in one without; the
\* ring is not followed further after a call that wrapped.  No buffer of
\* Usize bytes or more is created, and no more than MaxObjects buffers.
StagingRing_alloc(n, align) ==
    /\ sr_panicked = "none"
    /\ ~sr_wrapped
    /\ Cardinality(sr_live) < MaxAllocs
    /\ LET a == Max2(sr_align, align)
           first == staging_RingState_alloc(sr_head, sr_tail, sr_size, n, a)
           new_size == grow_new_size(n, sr_size)
           retry == staging_RingState_alloc(0, 0, new_size, n, a)
       IN  IF first.overflow /\ debug_build
           THEN /\ sr_panicked' = "overflow"
                /\ sr_last' = SRCall("alloc", FALSE, None)
                /\ UNCHANGED << sr_head, sr_tail, sr_buffer, sr_size, sr_old,
                                sr_wrapped, sr_live >>
           ELSE IF first.ret.some
           THEN /\ sr_head' = first.head
                /\ sr_wrapped' = first.overflow
                /\ sr_last' = SRCall("alloc", FALSE, first.ret)
                /\ sr_live' = SRLiveAfter(sr_buffer, first.ret, n)
                /\ UNCHANGED << sr_tail, sr_buffer, sr_size, sr_old,
                                sr_panicked >>
           ELSE /\ new_size < Usize
                /\ sr_buffer < MaxObjects
                /\ sr_buffer' = sr_buffer + 1
                /\ sr_size' = new_size
                /\ sr_old' = sr_old \cup {sr_buffer}
                /\ sr_tail' = 0
                /\ sr_head' = retry.head
                /\ sr_wrapped' = (first.overflow \/ retry.overflow)
                /\ sr_last' = SRCall("alloc", TRUE, retry.ret)
                /\ sr_live' = SRLiveAfter(sr_buffer + 1, retry.ret, n)
                /\ sr_panicked' = IF retry.overflow /\ debug_build
                                  THEN "overflow"
                                  ELSE IF retry.ret.some THEN "none"
                                  ELSE "expect"
    /\ UNCHANGED << sr_align, sr_frames, sr_current_frame >>
    /\ UNCHANGED gy_vars
    /\ UNCHANGED sr_others

\* StagingRing::begin_frame(graveyard): the replaced buffers go to the
\* Frame under the graveyard's cursor
StagingRing_begin_frame ==
    /\ sr_panicked = "none"
    /\ ~sr_wrapped
    /\ LET frames == [sr_frames EXCEPT ![sr_current_frame] = sr_head]
           current_frame == (sr_current_frame + 1) % Cardinality(DOMAIN sr_frames)
       IN  /\ sr_frames' = frames
           /\ sr_current_frame' = current_frame
           /\ sr_tail' = frames[current_frame]
    /\ sr_old' = {}
    /\ gy_frames' = [gy_frames EXCEPT ![gy_cursor] = @ \cup sr_old]
    /\ gy_last' = IF sr_old = {} THEN gy_last ELSE "inter"
    /\ sr_last' = SRCall("begin_frame", FALSE, None)
    /\ sr_live' = { SRAlloc(a.buffer, a.offset, a.n, a.age + 1) :
                      a \in { b \in sr_live :
                                b.age + 1 < Cardinality(DOMAIN sr_frames) } }
    /\ UNCHANGED << sr_head, sr_align, sr_buffer, sr_size, sr_panicked,
                    sr_wrapped >>
    /\ UNCHANGED << gy_cursor, gy_panicked, gy_destroyed, gy_age >>
    /\ UNCHANGED sr_others

SRSizes == 0..(2 * MaxCap + 1) \cup { Usize - 1 }
SRAligns == 1..MaxAlign

SRInit ==
    \E frames \in 1..MaxFrames : \E capacity \in 1..MaxCap :
        \E align \in SRAligns : StagingRing_new(frames, capacity, align)

SRNext ==
    \/ \E n \in SRSizes : \E align \in SRAligns : StagingRing_alloc(n, align)
    \/ StagingRing_begin_frame

(***************************************************************************)
(*                               AsyncQueue                                *)
(***************************************************************************)
\* the handles minted from the HandleSeed
AQHandles == 1..NumHandles

\* a command buffer: the n-th one flushed by handle h
AQCmd(h, n) == << h, n >>

\* a batch handed to queue_submit, with the value it signals
AQSubmission(cmds, value) == [cmds |-> cmds, value |-> value]

\* a command buffer pushed by flush, with the event flush cloned for it
AQFlushed(h, cmd, event, seq) ==
    [handle |-> h, cmd |-> cmd, event |-> event, seq |-> seq]

\* AsyncQueue::new: the queue and its seed, no handle minted yet
AsyncQueue_new ==
    /\ aq_cmds = << >>
    /\ aq_event = 1
    /\ aq_seq = 1
    /\ aq_dead = FALSE
    /\ aq_lock = {}
    /\ aq_highest_batch_sent = 0
    /\ aq_refcount = 0
    /\ aq_batch_available = 0
    /\ aq_batches_complete = 0
    /\ aq_in_flight = << >>
    /\ aq_batches_received = 0
    /\ aq_batches_completed = 0
    /\ aq_pc = "idle"
    /\ aq_running = FALSE
    /\ aq_panicked = FALSE
    /\ aq_handle = [h \in AQHandles |-> "seed"]
    /\ aq_h_in_flight = [h \in AQHandles |-> << >>]
    /\ aq_h_spare = [h \in AQHandles |-> 0]
    /\ aq_h_seq = [h \in AQHandles |-> 0]
    /\ aq_submissions = << >>
    /\ aq_set = {}
    /\ aq_flushed = {}

aq_driver_vars == << aq_in_flight, aq_batches_received, aq_batches_completed,
                     aq_pc, aq_running, aq_panicked, aq_submissions, aq_set >>
aq_shared_vars == << aq_cmds, aq_event, aq_seq, aq_dead, aq_lock,
                     aq_highest_batch_sent, aq_refcount, aq_batch_available >>
aq_handle_vars == << aq_handle, aq_h_in_flight, aq_h_spare, aq_h_seq,
                     aq_flushed >>

\* ---- the driver

\* the caller starts AsyncQueue::run
AsyncQueue_run ==
    /\ aq_pc = "idle"
    /\ aq_pc' = "run"
    /\ aq_running' = TRUE
    /\ UNCHANGED << aq_in_flight, aq_batches_received, aq_batches_completed,
                    aq_panicked, aq_submissions, aq_set >>
    /\ UNCHANGED << aq_shared_vars, aq_handle_vars, aq_batches_complete >>
    /\ UNCHANGED aq_others

\* the loop condition of run: refcount.load() != 0
run_continues(refcount) == refcount # 0

\* AsyncQueue::run: the test of the while loop
AsyncQueue_run_loop ==
    /\ aq_pc = "run"
    /\ aq_pc' = IF run_continues(aq_refcount) THEN "park" ELSE "destroy_lock"
    /\ UNCHANGED << aq_in_flight, aq_batches_received, aq_batches_completed,
                    aq_running, aq_panicked, aq_submissions, aq_set >>
    /\ UNCHANGED << aq_shared_vars, aq_handle_vars, aq_batches_complete >>
    /\ UNCHANGED aq_others

\* AsyncQueue::run: wait_semaphores with the flag ANY returns
AsyncQueue_run_wake ==
    /\ aq_pc = "park"
    /\ \/ aq_batches_complete >= aq_batches_completed + 1
       \/ aq_batch_available >= aq_batches_received + 1
    /\ aq_pc' = "drive_submit"
    /\ UNCHANGED << aq_in_flight, aq_batches_received, aq_batches_completed,
                    aq_running, aq_panicked, aq_submissions, aq_set >>
    /\ UNCHANGED << aq_shared_vars, aq_handle_vars, aq_batches_complete >>
    /\ UNCHANGED aq_others

\* the caller starts drive, wait_idle or destroy
AsyncQueue_call(op) ==
    /\ aq_pc = "idle"
    /\ aq_pc' = op
    /\ UNCHANGED << aq_in_flight, aq_batches_received, aq_batches_completed,
                    aq_running, aq_panicked, aq_submissions, aq_set >>
    /\ UNCHANGED << aq_shared_vars, aq_handle_vars, aq_batches_complete >>
    /\ UNCHANGED aq_others

\* AsyncQueue::submit_work, called by drive and by wait_idle
AsyncQueue_submit_work ==
    /\ aq_pc \in { "drive_submit", "wait_submit" }
    /\ aq_lock = {}
    /\ aq_pc' = IF aq_pc = "drive_submit" THEN "drive_broadcast" ELSE "wait_wait"
    /\ IF aq_cmds = << >>
       THEN UNCHANGED << aq_seq, aq_cmds, aq_event, aq_batches_received,
                         aq_submissions, aq_in_flight >>
       ELSE /\ aq_seq' = aq_seq + 1
            /\ aq_cmds' = << >>
            /\ aq_event' = aq_event + 1
            /\ aq_batches_received' = aq_batches_received + 1
            /\ aq_submissions' = Append(aq_submissions,
                                        AQSubmission(aq_cmds, aq_batches_received + 1))
            /\ aq_in_flight' = Append(aq_in_flight, aq_event)
    /\ UNCHANGED << aq_dead, aq_lock, aq_highest_batch_sent, aq_refcount,
                    aq_batch_available, aq_batches_complete >>
    /\ UNCHANGED << aq_batches_completed, aq_running, aq_panicked, aq_set >>
    /\ UNCHANGED aq_handle_vars
    /\ UNCHANGED aq_others

\* as broadcast_count, draining one event more
broadcast_count_one_more(completed, batches_completed) ==
    completed - batches_completed + 1

\* newly_completed of broadcast_completions
broadcast_count(completed, batches_completed) == completed - batches_completed

\* AsyncQueue::broadcast_completions(completed)
broadcast_completions(completed) ==
    LET newly_completed == broadcast_count(completed, aq_batches_completed)
    IN  /\ aq_batches_completed' = completed
        /\ IF newly_completed > Len(aq_in_flight)
           THEN /\ aq_panicked' = TRUE
                /\ UNCHANGED << aq_in_flight, aq_set >>
           ELSE /\ aq_set' = aq_set \cup
                       { aq_in_flight[i] : i \in 1..newly_completed }
                /\ aq_in_flight' = SubSeq(aq_in_flight, newly_completed + 1,
                                          Len(aq_in_flight))
                /\ UNCHANGED aq_panicked

\* AsyncQueue::drive after submit_work: read the counter, set the events
AsyncQueue_drive_broadcast ==
    /\ aq_pc = "drive_broadcast"
    /\ broadcast_completions(aq_batches_complete)
    /\ aq_pc' = IF aq_running THEN "run" ELSE "idle"
    /\ UNCHANGED << aq_batches_received, aq_running, aq_submissions >>
    /\ UNCHANGED << aq_shared_vars, aq_handle_vars, aq_batches_complete >>
    /\ UNCHANGED aq_others

\* AsyncQueue::wait_idle after submit_work: the wait returns
AsyncQueue_wait_idle_return ==
    /\ aq_pc = "wait_wait"
    /\ aq_batches_complete >= aq_batches_received
    /\ broadcast_completions(aq_batches_received)
    /\ aq_pc' = "idle"
    /\ UNCHANGED << aq_batches_received, aq_running, aq_submissions >>
    /\ UNCHANGED << aq_shared_vars, aq_handle_vars, aq_batches_complete >>
    /\ UNCHANGED aq_others

\* AsyncQueue::destroy: take the lock, mark the queue dead, submit what is
\* pending; the lock is kept
AsyncQueue_destroy_lock ==
    /\ aq_pc = "destroy_lock"
    /\ aq_lock = {}
    /\ aq_lock' = {0}
    /\ aq_dead' = TRUE
    /\ IF aq_cmds = << >>
       THEN UNCHANGED << aq_batches_received, aq_submissions, aq_in_flight >>
       ELSE /\ aq_batches_received' = aq_batches_received + 1
            /\ aq_submissions' = Append(aq_submissions,
                                        AQSubmission(aq_cmds, aq_batches_received + 1))
            /\ aq_in_flight' = Append(aq_in_flight, aq_event)
    /\ aq_pc' = "destroy_wait"
    /\ UNCHANGED << aq_cmds, aq_event, aq_seq, aq_highest_batch_sent,
                    aq_refcount, aq_batch_available, aq_batches_complete >>
    /\ UNCHANGED << aq_batches_completed, aq_running, aq_panicked, aq_set >>
    /\ UNCHANGED aq_handle_vars
    /\ UNCHANGED aq_others

\* AsyncQueue::destroy: the wait returns, the lock is released, every event
\* in flight is set
AsyncQueue_destroy_return ==
    /\ aq_pc = "destroy_wait"
    /\ aq_batches_complete >= aq_batches_received
    /\ aq_lock' = {}
    /\ aq_set' = aq_set \cup Range(aq_in_flight)
    /\ aq_in_flight' = << >>
    /\ aq_pc' = "destroyed"
    /\ UNCHANGED << aq_cmds, aq_event, aq_seq, aq_dead, aq_highest_batch_sent,
                    aq_refcount, aq_batch_available, aq_batches_complete >>
    /\ UNCHANGED << aq_batches_received, aq_batches_completed, aq_running,
                    aq_panicked, aq_submissions >>
    /\ UNCHANGED aq_handle_vars
    /\ UNCHANGED aq_others

\* the device completes the oldest batch not yet complete and signals its
\* value on batches_complete
AQGpu_complete ==
    /\ aq_batches_complete < Len(aq_submissions)
    /\ aq_batches_complete' = aq_submissions[aq_batches_complete + 1].value
    /\ UNCHANGED << aq_shared_vars, aq_driver_vars, aq_handle_vars >>
    /\ UNCHANGED aq_others

\* ---- the handles

\* Handle::new, from HandleSeed::into_handle or Handle::clone: 32 command
\* buffers are allocated, one becomes cmd
AQHandle_new(h) ==
    /\ aq_handle[h] = "seed"
    /\ aq_handle' = [aq_handle EXCEPT ![h] = "idle"]
    /\ aq_h_spare' = [aq_h_spare EXCEPT ![h] = CmdBatch - 1]
    /\ aq_refcount' = aq_refcount + 1
    /\ UNCHANGED << aq_cmds, aq_event, aq_seq, aq_dead, aq_lock,
                    aq_highest_batch_sent, aq_batch_available >>
    /\ UNCHANGED << aq_h_in_flight, aq_h_seq, aq_flushed >>
    /\ UNCHANGED << aq_driver_vars, aq_batches_complete >>
    /\ UNCHANGED aq_others

\* a flush that ignores pending.dead
flush_refused_never(dead) == FALSE

\* the test of flush under the pending lock: if pending.dead
flush_refused(dead) == dead

\* Handle::flush, under the pending lock: refuse, or push cmd and take the
\* batch's event and number
AQHandle_flush_lock(h) ==
    /\ aq_handle[h] = "idle"
    /\ Cardinality(aq_flushed) < MaxFlush
    /\ aq_lock = {}
    /\ IF flush_refused(aq_dead)
       THEN /\ aq_handle' = [aq_handle EXCEPT ![h] = "dead"]
            /\ UNCHANGED << aq_cmds, aq_h_seq, aq_flushed >>
       ELSE LET cmd == AQCmd(h, Len(aq_h_in_flight[h]) + 1)
            IN  /\ aq_cmds' = Append(aq_cmds, cmd)
                /\ aq_h_seq' = [aq_h_seq EXCEPT ![h] = aq_seq]
                /\ aq_flushed' = aq_flushed \cup
                                   { AQFlushed(h, cmd, aq_event, aq_seq) }
                /\ aq_handle' = [aq_handle EXCEPT ![h] = "flush"]
    /\ UNCHANGED << aq_event, aq_seq, aq_dead, aq_lock, aq_highest_batch_sent,
                    aq_refcount, aq_batch_available >>
    /\ UNCHANGED << aq_h_in_flight, aq_h_spare >>
    /\ UNCHANGED << aq_driver_vars, aq_batches_complete >>
    /\ UNCHANGED aq_others

\* the command buffers flush takes back when spare_cmds is empty: the
\* leading entries of in_flight whose batch is complete
RECURSIVE flush_recover(_, _)
flush_recover(in_flight, completed_batch) ==
    IF in_flight # << >> /\ Head(in_flight) <= completed_batch
    THEN flush_recover(Tail(in_flight), completed_batch)
    ELSE in_flight

\* Handle::flush after the pending lock: signal batch_available, remember
\* the command buffer, prepare the next one, return Ok
AQHandle_flush_finish(h) ==
    /\ aq_handle[h] = "flush"
    /\ IF aq_h_seq[h] > aq_highest_batch_sent
       THEN /\ aq_highest_batch_sent' = aq_h_seq[h]
            /\ aq_batch_available' = Max2(aq_batch_available, aq_h_seq[h])
       ELSE UNCHANGED << aq_highest_batch_sent, aq_batch_available >>
    /\ LET in_flight == Append(aq_h_in_flight[h], aq_h_seq[h])
           kept == flush_recover(in_flight, aq_batches_complete)
           recovered == Len(in_flight) - Len(kept)
       IN  IF aq_h_spare[h] > 0
           THEN /\ aq_h_in_flight' = [aq_h_in_flight EXCEPT ![h] = in_flight]
                /\ aq_h_spare' = [aq_h_spare EXCEPT ![h] = @ - 1]
           ELSE /\ aq_h_in_flight' = [aq_h_in_flight EXCEPT ![h] = kept]
                /\ aq_h_spare' = [aq_h_spare EXCEPT ![h] =
                                     IF recovered = 0 THEN CmdBatch - 1
                                     ELSE recovered - 1]
    /\ aq_handle' = [aq_handle EXCEPT ![h] = "idle"]
    /\ UNCHANGED << aq_cmds, aq_event, aq_seq, aq_dead, aq_lock, aq_refcount >>
    /\ UNCHANGED << aq_h_seq, aq_flushed >>
    /\ UNCHANGED << aq_driver_vars, aq_batches_complete >>
    /\ UNCHANGED aq_others

\* Handle::destroy of a handle that has flushed: take the pending lock and,
\* unless the queue is dead, keep it while waiting
AQHandle_destroy_lock(h) ==
    /\ aq_handle[h] \in { "idle", "dead" }
    /\ aq_h_in_flight[h] # << >>
    /\ aq_lock = {}
    /\ IF aq_dead
       THEN /\ aq_handle' = [aq_handle EXCEPT ![h] = "destroy_release"]
            /\ UNCHANGED aq_lock
       ELSE /\ aq_handle' = [aq_handle EXCEPT ![h] = "destroy_wait"]
            /\ aq_lock' = {h}
    /\ UNCHANGED << aq_cmds, aq_event, aq_seq, aq_dead, aq_highest_batch_sent,
                    aq_refcount, aq_batch_available >>
    /\ UNCHANGED << aq_h_in_flight, aq_h_spare, aq_h_seq, aq_flushed >>
    /\ UNCHANGED << aq_driver_vars, aq_batches_complete >>
    /\ UNCHANGED aq_others

\* Handle::destroy: the wait for the last flushed batch returns and the
\* lock is released
AQHandle_destroy_wait(h) ==
    /\ aq_handle[h] = "destroy_wait"
    /\ aq_batches_complete >= aq_h_in_flight[h][Len(aq_h_in_flight[h])]
    /\ aq_handle' = [aq_handle EXCEPT ![h] = "destroy_release"]
    /\ aq_lock' = {}
    /\ UNCHANGED << aq_cmds, aq_event, aq_seq, aq_dead, aq_highest_batch_sent,
                    aq_refcount, aq_batch_available >>
    /\ UNCHANGED << aq_h_in_flight, aq_h_spare, aq_h_seq, aq_flushed >>
    /\ UNCHANGED << aq_driver_vars, aq_batches_complete >>
    /\ UNCHANGED aq_others

\* Handle::destroy: destroy the pool, give up the reference and, as the
\* last handle, signal batch_available to make the driver leave
AQHandle_destroy_finish(h) ==
    /\ \/ aq_handle[h] = "destroy_release"
       \/ aq_handle[h] \in { "idle", "dead" } /\ aq_h_in_flight[h] = << >>
    /\ aq_handle' = [aq_handle EXCEPT ![h] = "destroyed"]
    /\ aq_refcount' = aq_refcount - 1
    /\ aq_batch_available' = IF aq_refcount = 1
                             THEN Max2(aq_batch_available,
                                       aq_highest_batch_sent + 1)
                             ELSE aq_batch_available
    /\ UNCHANGED << aq_cmds, aq_event, aq_seq, aq_dead, aq_lock,
                    aq_highest_batch_sent >>
    /\ UNCHANGED << aq_h_in_flight, aq_h_spare, aq_h_seq, aq_flushed >>
    /\ UNCHANGED << aq_driver_vars, aq_batches_complete >>
    /\ UNCHANGED aq_others

AQInit == AsyncQueue_new

AQDriverNext ==
    \/ AsyncQueue_run
    \/ AsyncQueue_run_loop
    \/ AsyncQueue_run_wake
    \/ \E op \in { "drive_submit", "wait_submit", "destroy_lock" } :
           AsyncQueue_call(op)
    \/ AsyncQueue_submit_work
    \/ AsyncQueue_drive_broadcast
    \/ AsyncQueue_wait_idle_return
    \/ AsyncQueue_destroy_lock
    \/ AsyncQueue_destroy_return

AQHandleNext ==
    \E h \in AQHandles :
        \/ AQHandle_new(h)
        \/ AQHandle_flush_lock(h)
        \/ AQHandle_flush_finish(h)
        \/ AQHandle_destroy_lock(h)
        \/ AQHandle_destroy_wait(h)
        \/ AQHandle_destroy_finish(h)

AQNext == AQDriverNext \/ AQHandleNext \/ AQGpu_complete

(***************************************************************************)
(*                              AppendBuffer                               *)
(***************************************************************************)
\* the record kept of the latest call: alloc returns (offset, old_buffer),
\* old_buffer an Option<DedicatedBuffer>
ABCall(op, offset, old_buffer) ==
    [op |-> op, offset |-> offset, old_buffer |-> old_buffer]

\* AppendBuffer::with_capacity(device, props, usage, capacity)
AppendBuffer_with_capacity(capacity) ==
    /\ ab_buffer = 1
    /\ ab_capacity = capacity
    /\ ab_fill = 0
    /\ ab_created = {1}
    /\ ab_returned = {}
    /\ ab_last = ABCall("with_capacity", 0, None)

\* what AppendBuffer::grow returns: the replaced buffer if self.fill > 0
grow_old_buffer(fill, buffer) == IF fill > 0 THEN Some(buffer) ELSE None

\* new_cap of AppendBuffer::grow
grow_new_cap(new_fill, capacity) == Max2(new_fill, capacity * 2)

\* AppendBuffer::alloc(device, props, cmd, size), with AppendBuffer::grow.
\* No buffer of Usize bytes or more is created.
AppendBuffer_alloc(size) ==
    LET new_fill == ab_fill + size
        new_cap == grow_new_cap(new_fill, ab_capacity)
        new == Cardinality(ab_created) + 1
        old_buffer == grow_old_buffer(ab_fill, ab_buffer)
    IN  /\ IF new_fill > ab_capacity
           THEN /\ new_cap < Usize
                /\ ab_created' = ab_created \cup {new}
                /\ ab_buffer' = new
                /\ ab_capacity' = new_cap
                /\ ab_returned' = IF old_buffer.some
                                  THEN ab_returned \cup {old_buffer.value}
                                  ELSE ab_returned
                /\ ab_last' = ABCall("alloc", ab_fill, old_buffer)
           ELSE /\ ab_last' = ABCall("alloc", ab_fill, None)
                /\ UNCHANGED << ab_created, ab_buffer, ab_capacity, ab_returned >>
        /\ ab_fill' = new_fill
        /\ UNCHANGED ab_others

ABSizes == 0..(MaxCap + 2)

ABInit == \E capacity \in 1..MaxCap : AppendBuffer_with_capacity(capacity)

ABNext == \E size \in ABSizes : AppendBuffer_alloc(size)

(***************************************************************************)
(*                              FenceFactory                               *)
(***************************************************************************)
FFFences == 1..MaxFences

FFWakers == 1..MaxWakers

\* enum SubmitState
SubmitState_None == [state |-> "None", waker |-> 0]

SubmitState_Blocking(waker) == [state |-> "Blocking", waker |-> waker]

SubmitState_Done == [state |-> "Done", waker |-> 0]

\* SubmitState::is_done
is_done(submitted) == submitted.state = "Done"

\* a registration: the fence at an index of fences, the waker at the same
\* index of tasks
FFPair(fence, task) == [fence |-> fence, task |-> task]

\* FenceFactory::new, and FenceFactory::get for every fence
FenceFactory_new ==
    /\ ff_fences = << >>
    /\ ff_tasks = << >>
    /\ ff_submitted = [f \in FFFences |-> SubmitState_None]
    /\ ff_pc = "idle"
    /\ ff_i = 0
    /\ ff_signalled = {}
    /\ ff_destroyed = {}
    /\ ff_registered = {}
    /\ ff_woken = {}
    /\ ff_ready = {}
    /\ ff_entered = {}
    /\ ff_last = "none"

\* Vec::swap_remove(index), index counted from 0: the last element takes
\* the place of the removed one
swap_remove(v, index) ==
    [k \in 1..(Len(v) - 1) |-> IF k = index + 1 THEN v[Len(v)] ELSE v[k]]

\* vkGetFenceStatus(fence).is_ok()
get_fence_status(fence) == fence \in ff_signalled

\* vkWaitForFences(fences, wait_all = false, timeout = 0): the outcomes.
\* Waiting for no fence is not valid usage, so either outcome may follow.
wait_for_fences(fences) ==
    IF Len(fences) = 0 THEN { "ok", "err" }
    ELSE IF \E k \in 1..Len(fences) : get_fence_status(fences[k])
         THEN { "ok" } ELSE { "err" }

\* the registrations in the factory whose fence the device has signalled
FFSignalledNow ==
    { FFPair(ff_fences[k], ff_tasks[k]) :
        k \in { j \in 1..Len(ff_fences) : get_fence_status(ff_fences[j]) } }

\* the test that ends the loop of poll
poll_loop_done(i, len) == i > len

\* <FenceSignaled as Future>::poll with the waker lw.  A task polls its
\* future again only once woken, and not after Poll::Ready; the branch that
\* registers takes the lock of the factory.
FenceSignaled_poll(f, lw) ==
    /\ f \notin ff_ready
    /\ f \notin ff_destroyed
    /\ f \notin Range(ff_fences)
    /\ IF ~is_done(ff_submitted[f])
       THEN /\ ff_submitted[f] # SubmitState_Blocking(lw)
            /\ ff_submitted' = [ff_submitted EXCEPT ![f] = SubmitState_Blocking(lw)]
            /\ UNCHANGED << ff_fences, ff_tasks, ff_registered, ff_ready >>
       ELSE IF get_fence_status(f)
            THEN /\ ff_ready' = ff_ready \cup {f}
                 /\ UNCHANGED << ff_fences, ff_tasks, ff_registered,
                                 ff_submitted >>
            ELSE /\ ff_pc = "idle"
                 /\ ff_fences' = Append(ff_fences, f)
                 /\ ff_tasks' = Append(ff_tasks, lw)
                 /\ ff_registered' = ff_registered \cup {FFPair(f, lw)}
                 /\ UNCHANGED << ff_submitted, ff_ready >>
    /\ UNCHANGED << ff_pc, ff_i, ff_signalled, ff_destroyed, ff_woken,
                    ff_entered, ff_last >>
    /\ UNCHANGED ff_others

\* Fence::submitted, called once for a fence
Fence_submitted(f) ==
    LET old == ff_submitted[f]
    IN  /\ ~is_done(old)
        /\ ff_submitted' = [ff_submitted EXCEPT ![f] = SubmitState_Done]
        /\ IF old.state = "Blocking"
           THEN /\ ff_pc = "idle"
                /\ ff_fences' = Append(ff_fences, f)
                /\ ff_tasks' = Append(ff_tasks, old.waker)
                /\ ff_registered' = ff_registered \cup {FFPair(f, old.waker)}
           ELSE UNCHANGED << ff_fences, ff_tasks, ff_registered >>
        /\ UNCHANGED << ff_pc, ff_i, ff_signalled, ff_destroyed, ff_woken,
                        ff_ready, ff_entered, ff_last >>
        /\ UNCHANGED ff_others

\* the device signals a fence
FFGpu_signal(f) ==
    /\ f \notin ff_signalled
    /\ ff_signalled' = ff_signalled \cup {f}
    /\ UNCHANGED << ff_fences, ff_tasks, ff_submitted, ff_pc, ff_i,
                    ff_destroyed, ff_registered, ff_woken, ff_ready,
                    ff_entered, ff_last >>
    /\ UNCHANGED ff_others

\* FenceFactory::poll up to the loop: lock, wait_for_fences, let mut i = 0
FenceFactory_poll ==
    /\ ff_pc = "idle"
    /\ \E r \in wait_for_fences(ff_fences) :
          IF r = "err"
          THEN /\ ff_last # "timeout"
               /\ ff_last' = "timeout"
               /\ UNCHANGED << ff_pc, ff_i, ff_entered >>
          ELSE /\ ff_pc' = "loop"
               /\ ff_i' = 0
               /\ ff_entered' = FFSignalledNow
               /\ ff_last' = "none"
    /\ UNCHANGED << ff_fences, ff_tasks, ff_submitted, ff_signalled,
                    ff_destroyed, ff_registered, ff_woken, ff_ready >>
    /\ UNCHANGED ff_others

\* one turn of the loop of FenceFactory::poll.  inner.fences[i] panics when
\* i is not below the length, and the lock is then poisoned.
FenceFactory_poll_loop ==
    /\ ff_pc = "loop"
    /\ IF poll_loop_done(ff_i, Len(ff_fences))
       THEN /\ ff_pc' = "idle"
            /\ ff_last' = "returned"
            /\ UNCHANGED << ff_fences, ff_tasks, ff_i, ff_destroyed, ff_woken >>
       ELSE IF ff_i >= Len(ff_fences)
            THEN /\ ff_pc' = "panicked"
                 /\ ff_last' = "index out of bounds"
                 /\ UNCHANGED << ff_fences, ff_tasks, ff_i, ff_destroyed,
                                 ff_woken >>
            ELSE IF get_fence_status(ff_fences[ff_i + 1])
                 THEN /\ ff_fences' = swap_remove(ff_fences, ff_i)
                      /\ ff_tasks' = swap_remove(ff_tasks, ff_i)
                      /\ ff_destroyed' = ff_destroyed \cup {ff_fences[ff_i + 1]}
                      /\ ff_woken' = ff_woken \cup
                             {FFPair(ff_fences[ff_i + 1], ff_tasks[ff_i + 1])}
                      /\ UNCHANGED << ff_pc, ff_i, ff_last >>
                 ELSE /\ ff_i' = ff_i + 1
                      /\ UNCHANGED << ff_fences, ff_tasks, ff_pc, ff_destroyed,
                                      ff_woken, ff_last >>
    /\ UNCHANGED << ff_submitted, ff_signalled, ff_registered, ff_ready,
                    ff_entered >>
    /\ UNCHANGED ff_others

FFInit == FenceFactory_new

FFNext ==
    \/ \E f \in FFFences, lw \in FFWakers : FenceSignaled_poll(f, lw)
    \/ \E f \in FFFences : Fence_submitted(f)
    \/ \E f \in FFFences : FFGpu_signal(f)
    \/ FenceFactory_poll
    \/ FenceFactory_poll_loop

(***************************************************************************)
(*                                 Reactor                                 *)
(***************************************************************************)
RXHandles == 1..MaxTransferHandles

\* struct Batch of transfer.rs: a command buffer and the oneshot senders of
\* the operations recorded in it
RXBatch(cmd, senders) == [cmd |-> cmd, senders |-> senders]

\* Reactor::new
Reactor_new ==
    /\ rx_handles = {1}
    /\ rx_chan = << >>
    /\ rx_pending = None
    /\ rx_in_flight = << >>
    /\ rx_in_flight_fences = << >>
    /\ rx_spare_fences = << >>
    /\ rx_spare_cmds = << >>
    /\ rx_pc = "idle"
    /\ rx_i = 0
    /\ rx_n = 0
    /\ rx_gpu = << >>
    /\ rx_signalled = {}
    /\ rx_created = [cmds |-> 0, fences |-> 0]
    /\ rx_sent = 0
    /\ rx_submitted = << >>
    /\ rx_notified = {}
    /\ rx_last = "none"

rx_reactor_vars == << rx_pending, rx_in_flight, rx_in_flight_fences,
                      rx_spare_fences, rx_spare_cmds, rx_pc, rx_i, rx_n,
                      rx_created, rx_submitted, rx_notified, rx_last >>

\* TransferHandle::clone
TransferHandle_clone(h, new) ==
    /\ h \in rx_handles
    /\ new \notin rx_handles
    /\ rx_handles' = rx_handles \cup {new}
    /\ UNCHANGED << rx_chan, rx_gpu, rx_signalled, rx_sent, rx_reactor_vars >>
    /\ UNCHANGED rx_others

\* drop of a TransferHandle
TransferHandle_drop(h) ==
    /\ h \in rx_handles
    /\ rx_handles' = rx_handles \ {h}
    /\ UNCHANGED << rx_chan, rx_gpu, rx_signalled, rx_sent, rx_reactor_vars >>
    /\ UNCHANGED rx_others

\* TransferHandle::upload_buffer, TransferHandle::upload_image: a Message
\* with a new oneshot sender is sent
TransferHandle_upload(h) ==
    /\ h \in rx_handles
    /\ rx_sent < MaxOps
    /\ rx_sent' = rx_sent + 1
    /\ rx_chan' = Append(rx_chan, rx_sent + 1)
    /\ UNCHANGED << rx_handles, rx_gpu, rx_signalled, rx_reactor_vars >>
    /\ UNCHANGED rx_others

\* Receiver::try_recv: a message if there is one, Disconnected if there is
\* none and no sender is left, Empty otherwise
try_recv(chan, handles) ==
    IF Len(chan) > 0 THEN "Ok"
    ELSE IF handles = {} THEN "Disconnected" ELSE "Empty"

\* Reactor::run_for, Reactor::poll: the call begins
Reactor_run_for ==
    /\ rx_pc = "idle"
    /\ rx_pc' = "queue"
    /\ rx_last' = "none"
    /\ UNCHANGED << rx_handles, rx_chan, rx_pending, rx_in_flight,
                    rx_in_flight_fences, rx_spare_fences, rx_spare_cmds,
                    rx_i, rx_n, rx_gpu, rx_signalled, rx_created, rx_sent,
                    rx_submitted, rx_notified >>
    /\ UNCHANGED rx_others

\* Reactor::prepare(send): the pending batch with send added, and the
\* command buffers created
prepare(send) ==
    IF rx_pending.some
    THEN [pending |-> Some(RXBatch(rx_pending.value.cmd,
                                    Append(rx_pending.value.senders, send))),
          spare_cmds |-> rx_spare_cmds,
          cmds |-> rx_created.cmds]
    ELSE IF Len(rx_spare_cmds) > 0
         THEN [pending |-> Some(RXBatch(rx_spare_cmds[Len(rx_spare_cmds)],
                                        << send >>)),
               spare_cmds |-> SubSeq(rx_spare_cmds, 1, Len(rx_spare_cmds) - 1),
               cmds |-> rx_created.cmds]
         ELSE [pending |-> Some(RXBatch(rx_created.cmds + 1, << send >>)),
               spare_cmds |-> rx_spare_cmds,
               cmds |-> rx_created.cmds + 1]

\* one turn of the loop of Reactor::queue; on Err(Disconnected) the `?` of
\* `self.queue()?` makes run_for return at once
Reactor_queue ==
    /\ rx_pc = "queue"
    /\ LET r == try_recv(rx_chan, rx_handles)
       IN  CASE r = "Ok" ->
                  LET p == prepare(Head(rx_chan))
                  IN  /\ rx_chan' = Tail(rx_chan)
                      /\ rx_pending' = p.pending
                      /\ rx_spare_cmds' = p.spare_cmds
                      /\ rx_created' = [rx_created EXCEPT !.cmds = p.cmds]
                      /\ UNCHANGED << rx_pc, rx_last >>
             [] r = "Disconnected" ->
                  /\ rx_pc' = "idle"
                  /\ rx_last' = "Err"
                  /\ UNCHANGED << rx_chan, rx_pending, rx_spare_cmds,
                                  rx_created >>
             [] r = "Empty" ->
                  /\ rx_pc' = "flush"
                  /\ UNCHANGED << rx_chan, rx_pending, rx_spare_cmds,
                                  rx_created, rx_last >>
    /\ UNCHANGED << rx_handles, rx_in_flight, rx_in_flight_fences,
                    rx_spare_fences, rx_i, rx_n, rx_gpu, rx_signalled,
                    rx_sent, rx_submitted, rx_notified >>
    /\ UNCHANGED rx_others

\* Reactor::flush, then the test of in_flight.is_empty() of run_for
Reactor_flush ==
    /\ rx_pc = "flush"
    /\ IF rx_pending.some
       THEN LET spare == Len(rx_spare_fences) > 0
                fence == IF spare THEN rx_spare_fences[Len(rx_spare_fences)]
                         ELSE rx_created.fences + 1
            IN  /\ rx_spare_fences' =
                       IF spare
                       THEN SubSeq(rx_spare_fences, 1, Len(rx_spare_fences) - 1)
                       ELSE rx_spare_fences
                /\ rx_created' =
                       IF spare THEN rx_created
                       ELSE [rx_created EXCEPT !.fences = fence]
                /\ rx_submitted' = Append(rx_submitted, rx_pending.value)
                /\ rx_gpu' = Append(rx_gpu, fence)
                /\ rx_in_flight' = Append(rx_in_flight, rx_pending.value)
                /\ rx_in_flight_fences' = Append(rx_in_flight_fences, fence)
                /\ rx_pending' = None
       ELSE UNCHANGED << rx_spare_fences, rx_created, rx_submitted, rx_gpu,
                         rx_in_flight, rx_in_flight_fences, rx_pending >>
    /\ IF Len(rx_in_flight') = 0
       THEN /\ rx_pc' = "idle"
            /\ rx_last' = "Ok"
       ELSE /\ rx_pc' = "wait"
            /\ UNCHANGED rx_last
    /\ UNCHANGED << rx_handles, rx_chan, rx_spare_cmds, rx_i, rx_n,
                    rx_signalled, rx_sent, rx_notified >>
    /\ UNCHANGED rx_others

\* wait_for_fences(&in_flight_fences, false, timeout) of run_for: Ok if a
\* fence is signalled, TIMEOUT (run_for returns Ok) if none is
Reactor_wait ==
    /\ rx_pc = "wait"
    /\ IF \E k \in 1..Len(rx_in_flight_fences) :
              rx_in_flight_fences[k] \in rx_signalled
       THEN /\ rx_pc' = "scan"
            /\ rx_i' = 0
            /\ rx_n' = Len(rx_in_flight)
            /\ UNCHANGED rx_last
       ELSE /\ rx_pc' = "idle"
            /\ rx_last' = "Ok"
            /\ UNCHANGED << rx_i, rx_n >>
    /\ UNCHANGED << rx_handles, rx_chan, rx_pending, rx_in_flight,
                    rx_in_flight_fences, rx_spare_fences, rx_spare_cmds,
                    rx_gpu, rx_signalled, rx_created, rx_sent, rx_submitted,
                    rx_notified >>
    /\ UNCHANGED rx_others

\* one turn of `for i in 0..self.in_flight.len()` of run_for; the range is
\* computed once, in_flight_fences[i] panics when i is not below the length
Reactor_scan ==
    /\ rx_pc = "scan"
    /\ IF rx_i >= rx_n
       THEN /\ rx_pc' = "idle"
            /\ rx_last' = "Ok"
            /\ UNCHANGED << rx_i, rx_in_flight, rx_in_flight_fences,
                            rx_spare_fences, rx_spare_cmds, rx_signalled,
                            rx_notified >>
       ELSE IF rx_i >= Len(rx_in_flight_fences)
            THEN /\ rx_pc' = "panicked"
                 /\ rx_last' = "index out of bounds"
                 /\ UNCHANGED << rx_i, rx_in_flight, rx_in_flight_fences,
                                 rx_spare_fences, rx_spare_cmds, rx_signalled,
                                 rx_notified >>
            ELSE LET fence == rx_in_flight_fences[rx_i + 1]
                     batch == rx_in_flight[rx_i + 1]
                 IN  /\ rx_i' = rx_i + 1
                     /\ UNCHANGED << rx_pc, rx_last >>
                     /\ IF fence \in rx_signalled
                        THEN /\ rx_in_flight_fences' =
                                    swap_remove(rx_in_flight_fences, rx_i)
                             /\ rx_signalled' = rx_signalled \ {fence}
                             /\ rx_spare_fences' = Append(rx_spare_fences, fence)
                             /\ rx_in_flight' = swap_remove(rx_in_flight, rx_i)
                             /\ rx_notified' =
                                    rx_notified \cup Range(batch.senders)
                             /\ rx_spare_cmds' = Append(rx_spare_cmds, batch.cmd)
                        ELSE UNCHANGED << rx_in_flight, rx_in_flight_fences,
                                          rx_spare_fences, rx_spare_cmds,
                                          rx_signalled, rx_notified >>
    /\ UNCHANGED << rx_handles, rx_chan, rx_pending, rx_n, rx_gpu,
                    rx_created, rx_sent, rx_submitted >>
    /\ UNCHANGED rx_others

\* the device completes the oldest submission and signals its fence
RXGpu_signal ==
    /\ Len(rx_gpu) > 0
    /\ rx_signalled' = rx_signalled \cup {Head(rx_gpu)}
    /\ rx_gpu' = Tail(rx_gpu)
    /\ UNCHANGED << rx_handles, rx_chan, rx_sent, rx_reactor_vars >>
    /\ UNCHANGED rx_others

RXInit == Reactor_new

RXNext ==
    \/ \E h \in RXHandles, new \in RXHandles : TransferHandle_clone(h, new)
    \/ \E h \in RXHandles : TransferHandle_drop(h)
    \/ \E h \in RXHandles : TransferHandle_upload(h)
    \/ Reactor_run_for
    \/ Reactor_queue
    \/ Reactor_flush
    \/ Reactor_wait
    \/ Reactor_scan
    \/ RXGpu_signal

(***************************************************************************)
(*                              StagingArena                               *)
(***************************************************************************)
SAUsize == 2 ^ SAUsizeBits

\* struct Alloc { buffer, offset, size } of staging_arena.rs
SAAlloc(buffer, offset, size) ==
    [buffer |-> buffer, offset |-> offset, size |-> size]

\* the record kept of the latest call: ret is the Alloc returned, if any
SACall(op, ret) == [op |-> op, ret |-> ret]

\* StagingArena::new(device, props, capacity)
StagingArena_new(capacity) ==
    /\ sa_mem = 1
    /\ sa_mem_size = capacity
    /\ sa_old = {}
    /\ sa_cursor = 0
    /\ sa_capacity = capacity
    /\ sa_state = "live"
    /\ sa_live = {}
    /\ sa_last = SACall("new", << >>)

\* the size of the buffer alloc creates when the request does not fit
alloc_new_size(capacity) == Max2(capacity, MinGrow) * 2

\* StagingArena::alloc(device, size).  offset + size panics on overflow in
\* a build with overflow checks and wraps in one without.  The new buffer
\* gets a handle that no buffer of the arena has; no more than MaxObjects
\* buffers exist at a time.
StagingArena_alloc(size) ==
    /\ sa_state = "live"
    /\ Cardinality(sa_live) < MaxAllocs
    /\ LET sum == sa_cursor + size
           end == sum % SAUsize
       IN  IF sum >= SAUsize /\ debug_build
           THEN /\ sa_state' = "panicked"
                /\ sa_last' = SACall("alloc", << >>)
                /\ UNCHANGED << sa_mem, sa_mem_size, sa_old, sa_cursor,
                                sa_live >>
           ELSE IF end > sa_capacity
           THEN \E new \in Objects \ ({sa_mem} \cup sa_old) :
                    /\ sa_mem' = new
                    /\ sa_mem_size' = alloc_new_size(sa_capacity)
                    /\ sa_old' = sa_old \cup {sa_mem}
                    /\ sa_cursor' = size
                    /\ sa_live' = sa_live \cup { SAAlloc(new, 0, size) }
                    /\ sa_last' = SACall("alloc", << SAAlloc(new, 0, size) >>)
                    /\ UNCHANGED sa_state
           ELSE /\ sa_cursor' = end
                /\ sa_live' = sa_live \cup { SAAlloc(sa_mem, sa_cursor, size) }
                /\ sa_last' = SACall("alloc", << SAAlloc(sa_mem, sa_cursor, size) >>)
                /\ UNCHANGED << sa_mem, sa_mem_size, sa_old, sa_state >>
    /\ UNCHANGED sa_capacity
    /\ UNCHANGED sa_others

\* StagingArena::reset(device)
StagingArena_reset ==
    /\ sa_state = "live"
    /\ sa_cursor' = 0
    /\ sa_old' = {}
    /\ sa_live' = {}
    /\ sa_last' = SACall("reset", << >>)
    /\ UNCHANGED << sa_mem, sa_mem_size, sa_capacity, sa_state >>
    /\ UNCHANGED sa_others

\* StagingArena::destroy(device)
StagingArena_destroy ==
    /\ sa_state = "live"
    /\ sa_state' = "destroyed"
    /\ sa_old' = {}
    /\ sa_last' = SACall("destroy", << >>)
    /\ UNCHANGED << sa_mem, sa_mem_size, sa_cursor, sa_capacity, sa_live >>
    /\ UNCHANGED sa_others

SACapacities == { 1, 2, 2 * MinGrow }
SASizes == { 0, 1, 2, MinGrow, 2 * MinGrow, 2 * MinGrow + 1, SAUsize - 1 }

SAInit == \E capacity \in SACapacities : StagingArena_new(capacity)

SANext ==
    \/ \E size \in SASizes : StagingArena_alloc(size)
    \/ StagingArena_reset
    \/ StagingArena_destroy

(***************************************************************************)
(* Specifications.                                                         *)
(***************************************************************************)
PQIdle == PQInit
TRIdle == TimelineRing_new(MaxCap, FALSE)
RSIdle == RingState_new(MaxCap)
RAIdle == RingAlloc_new(MaxUnits)
GYIdle == Graveyard_new(MaxDepth)
SRIdle == StagingRing_new(MaxFrames, MaxCap, 1)
AQIdle == AsyncQueue_new
ABIdle == AppendBuffer_with_capacity(MaxCap)
FFIdle == FenceFactory_new
RXIdle == Reactor_new
SAIdle == StagingArena_new(1)

\* a constructed queue with its handles, beside idle rings
PQStart == PQInit /\ TRIdle /\ RSIdle /\ RAIdle /\ GYIdle /\ SRIdle /\ AQIdle /\ ABIdle /\ FFIdle /\ RXIdle /\ SAIdle
\* a constructed ring of any capacity in either build, beside an idle queue
TRStart == TRInit /\ PQIdle /\ RSIdle /\ RAIdle /\ GYIdle /\ SRIdle /\ AQIdle /\ ABIdle /\ FFIdle /\ RXIdle /\ SAIdle
\* a constructed RingState of any capacity
RSStart == RSInit /\ PQIdle /\ TRIdle /\ RAIdle /\ GYIdle /\ SRIdle /\ AQIdle /\ ABIdle /\ FFIdle /\ RXIdle /\ SAIdle
\* a constructed RingAlloc of any capacity in either build
RAStart ==
    /\ RAInit
    /\ \E debug \in BOOLEAN : TimelineRing_new(MaxCap, debug)
    /\ PQIdle /\ RSIdle /\ GYIdle /\ SRIdle /\ AQIdle /\ ABIdle /\ FFIdle /\ RXIdle /\ SAIdle
\* a constructed Graveyard of any depth
GYStart == GYInit /\ PQIdle /\ TRIdle /\ RSIdle /\ RAIdle /\ SRIdle /\ AQIdle /\ ABIdle /\ FFIdle /\ RXIdle /\ SAIdle
\* a constructed StagingRing in either build, beside an empty Graveyard
SRStart ==
    /\ SRInit
    /\ \E debug \in BOOLEAN : TimelineRing_new(MaxCap, debug)
    /\ PQIdle /\ RSIdle /\ RAIdle /\ GYIdle /\ AQIdle /\ ABIdle /\ FFIdle /\ RXIdle /\ SAIdle

\* a constructed AsyncQueue with its seed
AQStart == AQInit /\ PQIdle /\ TRIdle /\ RSIdle /\ RAIdle /\ GYIdle /\ SRIdle /\ ABIdle /\ FFIdle /\ RXIdle /\ SAIdle

\* a constructed AppendBuffer of any capacity
ABStart ==
    ABInit /\ PQIdle /\ TRIdle /\ RSIdle /\ RAIdle /\ GYIdle /\ SRIdle /\ AQIdle /\ FFIdle /\ RXIdle /\ SAIdle

\* a new FenceFactory and MaxFences fences got from it
FFStart ==
    FFInit /\ PQIdle /\ TRIdle /\ RSIdle /\ RAIdle /\ GYIdle /\ SRIdle /\ AQIdle /\ ABIdle /\ RXIdle /\ SAIdle

\* a new Reactor with its first TransferHandle
RXStart ==
    RXInit /\ PQIdle /\ TRIdle /\ RSIdle /\ RAIdle /\ GYIdle /\ SRIdle /\ AQIdle /\ ABIdle /\ FFIdle /\ SAIdle

\* a constructed StagingArena in either build
SAStart ==
    /\ SAInit
    /\ \E debug \in BOOLEAN : TimelineRing_new(MaxCap, debug)
    /\ PQIdle /\ RSIdle /\ RAIdle /\ GYIdle /\ SRIdle /\ AQIdle /\ ABIdle /\ FFIdle /\ RXIdle

\* producers on every handle, a consumer that drives, and the device
PQSpec == PQStart /\ [][PQNext]_vars

\* as PQSpec, from the moment a handle has no spare command buffer left
PQReuseStart ==
    PQReuseInit /\ TRIdle /\ RSIdle /\ RAIdle /\ GYIdle /\ SRIdle /\ AQIdle /\ ABIdle /\ FFIdle /\ RXIdle /\ SAIdle
PQReuseSpec == PQReuseStart /\ [][PQNext]_vars

\* as PQSpec, with a consumer that also parks and drains
PQWaitSpec == PQStart /\ [][PQWaitNext]_vars

\* any sequence of alloc and tick calls with non-decreasing free_at
TRSpec == TRStart /\ [][TRNext]_vars

\* as TRSpec, every alloc asking for one byte or more
TRPosSpec == TRStart /\ [][TRPosNext]_vars

\* any sequence of alloc calls on a RingState whose owner releases the
\* allocations oldest first
RSSpec == RSStart /\ [][RSNext]_vars

\* any sequence of alloc calls and of free calls, each Id freed once
RASpec == RAStart /\ [][RANext]_vars

\* any sequence of inter, begin_frame and clear calls
GYSpec == GYStart /\ [][GYNext]_vars

\* any sequence of alloc and begin_frame calls
SRSpec == SRStart /\ [][SRNext]_vars

\* the driver's thread, the handles' threads and the device, interleaved
AQSpec == AQStart /\ [][AQNext]_vars

\* any sequence of alloc calls
ABSpec == ABStart /\ [][ABNext]_vars

\* futures polled, fences submitted and signalled, the factory polled
FFSpec == FFStart /\ [][FFNext]_vars

\* handles cloned, used and dropped while the Reactor is run
RXSpec == RXStart /\ [][RXNext]_vars

\* any sequence of alloc and reset calls, ended by destroy
SASpec == SAStart /\ [][SANext]_vars

\* PQSpec with a consumer that keeps driving and producers that pass every
\* Work they were given to end or to reset
PQFair ==
    /\ WF_vars(ParallelQueue_drive)
    /\ \A h \in Handles : WF_vars(Handle_begin_acquire(h))
    /\ \A h \in Handles :
           WF_vars(\E work \in pq_held[h] : Handle_end(h, work) \/ Handle_reset(h, work))

PQLiveSpec == PQStart /\ [][PQNext]_vars /\ PQFair

\* AQSpec with a driver that keeps taking steps (run, or call after call),
\* a device that completes what is submitted, and waits that return once
\* their semaphore has reached the value
AQFair ==
    /\ WF_vars(AQDriverNext)
    /\ WF_vars(AQGpu_complete)
    /\ \A h \in AQHandles : WF_vars(AQHandle_destroy_wait(h))
    /\ \A h \in AQHandles : WF_vars(AQHandle_flush_finish(h))

AQLiveSpec == AQStart /\ [][AQNext]_vars /\ AQFair

(***************************************************************************)
(* Properties of ParallelQueue.                                            *)
(***************************************************************************)
\* the least number from n on that is not in T
RunEnd(T, n) ==
    CHOOSE e \in n..(n + Cardinality(T)) :
        /\ e \notin T
        /\ \A k \in n..(e - 1) : k \in T

\* the Work of an Execute message
WorkOf(m) == Work(m.cmd, m.time)

\* the sequence s holds Works of strictly increasing time
StrictlyIncreasing(s) == \A i \in 1..(Len(s) - 1) : s[i].time < s[i + 1].time

\* the batches of a queue of submissions, laid end to end
RECURSIVE Flatten(_)
Flatten(batches) ==
    IF batches = << >> THEN << >>
    ELSE Head(batches).cmds \o Flatten(Tail(batches))

\* every Work handed to vkQueueSubmit so far, in the order the queue got them
Submitted == pq_executed \o Flatten(pq_gpu)

\* C1: a drive call moves first_unsubmitted over exactly the maximal
\* contiguous run of numbers, from first_unsubmitted on, that have a message
\* in the channel or the heap; it submits in one batch the Execute works of
\* that run and nothing else, and every other message is left in the heap.
C1_DriveSubmitsMaximalRun ==
    [][ (pq_pending' # pq_pending
           \/ pq_first_unsubmitted' # pq_first_unsubmitted
           \/ Len(pq_channel') < Len(pq_channel))
        => LET avail == pq_pending \cup Range(pq_channel)
               first == pq_first_unsubmitted
               end == RunEnd({ m.time : m \in avail }, first)
               run == { m \in avail : m.time \in first..(end - 1) }
               works == { WorkOf(m) : m \in { x \in run : x.kind = "Execute" } }
           IN  /\ pq_first_unsubmitted' = end
               /\ pq_pending' = avail \ run
               /\ pq_channel' = << >>
               /\ IF works = {}
                  THEN pq_gpu' = pq_gpu
                  ELSE /\ Len(pq_gpu') = Len(pq_gpu) + 1
                       /\ SubSeq(pq_gpu', 1, Len(pq_gpu)) = pq_gpu
                       /\ LET batch == pq_gpu'[Len(pq_gpu')]
                          IN  /\ Range(batch.cmds) = works
                              /\ Len(batch.cmds) = Cardinality(works)
                              /\ batch.signal = end - 1 ]_vars

\* a drive has submitted work 1 and kept message 3 in the heap while 2 is open
C1_Witness ==
    /\ pq_first_unsubmitted = 2
    /\ pq_channel = << >>
    /\ \E m \in pq_pending : m.time = 3
    /\ \E i \in 1..Len(Submitted) : Submitted[i].time = 1

\* C2: when the counter has value N, every Work of number <= N that was
\* passed to end has been executed by the device.
C2_CounterImpliesComplete ==
    \A work \in pq_ended :
        work.time <= pq_semaphore => work \in Range(pq_executed)

\* the counter has reached 2 and covers a reset number and an ended one
C2_Witness ==
    /\ pq_semaphore >= 2
    /\ \E work \in pq_ended : work.time <= pq_semaphore
    /\ \E n \in 1..pq_semaphore : \A work \in pq_ended : work.time # n

\* C3: while a Work of number m is held (begin returned it, neither end nor
\* reset has taken it), first_unsubmitted does not exceed m and no Work of a
\* higher number has been submitted.
C3_GapStallsHigherNumbers ==
    \A h \in Handles : \A work \in pq_held[h] :
        /\ pq_first_unsubmitted <= work.time
        /\ \A i \in 1..Len(Submitted) : Submitted[i].time < work.time

\* handle A ended 1, handle B holds 2, 3 was ended: exactly 1 is submitted
C3_Witness ==
    /\ \E h \in Handles : \E work \in pq_held[h] : work.time = 2
    /\ \E m \in pq_pending : m.time = 3 /\ m.kind = "Execute"
    /\ Len(Submitted) = 1
    /\ Submitted[1].time = 1
    /\ pq_first_unsubmitted = 2

\* C4: the Works reach the device queue in strictly increasing order of
\* sequence number, inside a batch and from one batch to the next.
C4_SubmittedInSequenceOrder == StrictlyIncreasing(Submitted)

\* a batch of two Works recorded on different handles follows an earlier batch
C4_Witness ==
    /\ pq_executed # << >>
    /\ \E i \in 1..Len(pq_gpu) :
           /\ Len(pq_gpu[i].cmds) >= 2
           /\ pq_gpu[i].cmds[1].cmd[1] # pq_gpu[i].cmds[2].cmd[1]

\* C5: reset sends Reset(time of the work), and when every Work is passed to
\* end or reset and drive keeps being called, first_unsubmitted passes every
\* allocated number and every ended Work is submitted.
C5_ResetLeavesNoGap ==
    /\ [][ \A h \in Handles : \A work \in pq_held[h] :
               Handle_reset(h, work)
               => pq_channel' = Append(pq_channel, Message_Reset(work.time)) ]_vars
    /\ \A n \in 1..MaxSeq :
           (pq_first_unallocated > n) ~> (pq_first_unsubmitted > n)
    /\ \A n \in 1..MaxSeq :
           (\E work \in pq_ended : work.time = n)
               ~> (\E i \in 1..Len(Submitted) : Submitted[i].time = n)

\* every number was allocated, one of them was reset, and drive has passed all
C5_Witness ==
    /\ pq_first_unallocated = MaxSeq + 1
    /\ pq_first_unsubmitted = MaxSeq + 1
    /\ pq_ended # {}
    /\ Cardinality(pq_ended) < MaxSeq

\* C6: a drain in progress returns once the device has completed every batch
\* that drive submitted; it waits for nothing else.
C6_DrainWaitsOnlyForSubmitted ==
    (pq_pc = "drain" /\ pq_gpu = << >>) => drain_wait_satisfied

\* C7: a park in progress returns as soon as the counter has reached
\* first_unsignaled, and as soon as `wake` has reached wake_value.
C7_ParkReturnsOnEither ==
    (pq_pc = "park"
       /\ (pq_semaphore >= pq_first_unsignaled \/ pq_wake >= pq_wake_value))
    => park_wait_satisfied

(***************************************************************************)
(* Properties of TimelineRing.                                             *)
(***************************************************************************)
\* the pending allocations i and j occupy disjoint ranges
Disjoint(allocations, sizes, i, j) ==
    \/ allocations[i].offset + sizes[i] <= allocations[j].offset
    \/ allocations[j].offset + sizes[j] <= allocations[i].offset

\* C8: with every alloc asking for one byte or more, no two pending
\* allocations overlap, and the offset alloc returns is a multiple of the
\* align it was called with.
C8_NoOverlapAndAligned ==
    [][ /\ \A i, j \in 1..Len(tr_allocations') :
               i < j => Disjoint(tr_allocations', tr_sizes', i, j)
        /\ \A size \in TRSizes \ {0} : \A align \in TRAligns : \A free_at \in TRTimes :
               (TimelineRing_alloc(size, align, free_at) /\ tr_last'.ret.some)
               => tr_last'.ret.value % align = 0 ]_vars

\* C9: after tick(t) no pending allocation has free_at <= t, the allocations
\* with free_at > t are pending as before, and tick returned true exactly
\* when an allocation with free_at <= t was pending.
C9_TickReclaimsExactlyTheDue ==
    [][ \A time \in TRTimes :
            (TimelineRing_tick(time) /\ ~tr_panicked')
            => LET Later(alloc) == alloc.free_at > time
               IN  /\ \A i \in 1..Len(tr_allocations') :
                          tr_allocations'[i].free_at > time
                   /\ tr_allocations' = SelectSeq(tr_allocations, Later)
                   /\ tr_last'.ret.some
                        <=> (\E i \in 1..Len(tr_allocations) :
                                 tr_allocations[i].free_at <= time) ]_vars

\* a tick has reclaimed an allocation and left a later one pending
C9_Witness ==
    /\ tr_last.op = "tick"
    /\ tr_last.ret.some
    /\ tr_allocations # << >>
    /\ ~tr_panicked

\* C10: alloc either places the request inside the ring and returns its
\* offset, or returns None and leaves head, tail and the pending allocations
\* as they were; it does not panic.
C10_AllocPlacesOrReturnsNone ==
    [][ \A size \in TRSizes : \A align \in TRAligns : \A free_at \in TRTimes :
            TimelineRing_alloc(size, align, free_at)
            => /\ ~tr_panicked'
               /\ tr_last'.ret.some => tr_last'.ret.value + size <= tr_size
               /\ ~tr_last'.ret.some
                    => UNCHANGED << tr_head, tr_tail, tr_allocations >> ]_vars

\* alloc(size, 1, _) called in the current state returns an offset
AllocWouldSucceed(size) ==
    LET place == TimelineRing_alloc_place(tr_size, tr_head, tr_tail, size, 1)
    IN  ~place.underflow /\ place.ret.some

\* alloc(size, 1, _) called in the current state returns None
AllocWouldReturnNone(size) ==
    LET place == TimelineRing_alloc_place(tr_size, tr_head, tr_tail, size, 1)
    IN  ~place.underflow /\ ~place.ret.some

\* C12: free() is the largest size alloc accepts with align 1: alloc(s, 1, _)
\* succeeds for every s <= free() and returns None for s = free() + 1.
C12_FreeIsLargestAlloc ==
    ~tr_panicked
    => /\ \A s \in 0..TimelineRing_free : AllocWouldSucceed(s)
       /\ AllocWouldReturnNone(TimelineRing_free + 1)

\* allocations are pending below a tail that a tick has moved, and the
\* space between head and 0 is the larger free run
C12_Witness ==
    /\ ~tr_panicked /\ ~tr_wrapped
    /\ tr_allocations # << >>
    /\ tr_head <= tr_tail
    /\ tr_head > tr_size - tr_tail - 1
    /\ TimelineRing_free > 0

\* C13: a ring with no pending allocation is in the empty state: free() is
\* capacity() and an allocation of capacity() bytes with align 1 succeeds.
C13_NoPendingMeansEmpty ==
    (tr_allocations = << >> /\ ~tr_panicked)
    => /\ TimelineRing_free = TimelineRing_capacity
       /\ AllocWouldSucceed(TimelineRing_capacity)

\* C35: the assertion of tick holds: when the offset of the allocation just
\* reclaimed equals head, no allocation is left pending.  A build with
\* debug assertions panics in tick where it does not hold.
C35_TickAssertionHolds == ~(tr_last.op = "tick" /\ tr_panicked)

\* C36: every range alloc returns lies inside a buffer of capacity() bytes:
\* offset + size <= capacity() for every successful allocation.
C36_AllocInsideCapacity ==
    [][ \A size \in TRSizes : \A align \in TRAligns : \A free_at \in TRTimes :
            (TimelineRing_alloc(size, align, free_at) /\ tr_last'.ret.some)
            => tr_last'.ret.value + size <= TimelineRing_capacity ]_vars

(***************************************************************************)
(* Properties of RingState.                                                *)
(***************************************************************************)
\* C11: a RingState::alloc whose size exceeds capacity returns None and
\* leaves head and tail as they were, whether head > tail or not.
C11_OversizeReturnsNone ==
    [][ \A size \in RSSizes : \A align \in RSAligns :
            (RingState_alloc(size, align) /\ size > rs_capacity)
            => /\ ~rs_last'.ret.some
               /\ UNCHANGED << rs_head, rs_tail >> ]_vars

\* a request larger than capacity was refused with head above tail
C11_Witness ==
    /\ rs_last.op = "alloc"
    /\ rs_last.size > rs_capacity
    /\ ~rs_last.ret.some
    /\ rs_head > rs_tail
    /\ rs_live # << >>

(***************************************************************************)
(* Properties of RingAlloc.                                                *)
(***************************************************************************)
\* a RingAlloc of capacity 4 with these allocations and this head
RAState(allocations, head) ==
    /\ ra_capacity = 4
    /\ ra_allocations = allocations
    /\ ra_head = head

\* the same, in the state after the step
RAStateNext(allocations, head) ==
    /\ ra_allocations' = allocations
    /\ ra_head' = head

\* C14: in a capacity-4 RingAlloc, alloc(3,1) returns 0, alloc(2,1) fails,
\* alloc(1,1) returns 3, alloc(1,1) fails, and once the first allocation is
\* freed alloc(1,1) returns 0 and alloc(2,1) returns 1.  Each line takes the
\* state the line before it leaves.
C14_CapacityFourScenario ==
    [][ LET A == RAEntry(0, FALSE)
            B == RAEntry(3, FALSE)
            C == RAEntry(0, FALSE)
            D == RAEntry(1, FALSE)
        IN  /\ (ra_capacity = 4 /\ ra_allocations = << >> /\ RingAlloc_alloc(3, 1))
               => (ra_last'.ret = Some(0) /\ RAStateNext(<< A >>, 3))
            /\ (RAState(<< A >>, 3) /\ RingAlloc_alloc(2, 1))
               => (ra_last'.ret = None /\ RAStateNext(<< A >>, 3))
            /\ (RAState(<< A >>, 3) /\ RingAlloc_alloc(1, 1))
               => (ra_last'.ret = Some(3) /\ RAStateNext(<< A, B >>, 0))
            /\ (RAState(<< A, B >>, 0) /\ RingAlloc_alloc(1, 1))
               => (ra_last'.ret = None /\ RAStateNext(<< A, B >>, 0))
            /\ (RAState(<< A, B >>, 0) /\ RingAlloc_free(ra_freed))
               => RAStateNext(<< B >>, 0)
            /\ (RAState(<< B >>, 0) /\ RingAlloc_alloc(1, 1))
               => (ra_last'.ret = Some(0) /\ RAStateNext(<< B, C >>, 1))
            /\ (RAState(<< B, C >>, 1) /\ RingAlloc_alloc(2, 1))
               => (ra_last'.ret = Some(1) /\ RAStateNext(<< B, C, D >>, 3)) ]_vars

\* the end of the scenario: the fourth allocation of a capacity-4 ring, made
\* after one free, sits at offset 1 behind the ones at 3 and 0
C14_Witness ==
    /\ ra_capacity = 4
    /\ ra_last = RACall("alloc", Some(1), 3)
    /\ ra_freed = 1
    /\ ra_allocations = << RAEntry(3, FALSE), RAEntry(0, FALSE), RAEntry(1, FALSE) >>
    /\ ra_ranges = << RARange(3, 4), RARange(0, 1), RARange(1, 3) >>

\* unit u belongs to no allocation the ring still holds
RAFreeUnit(u) ==
    \A i \in 1..Len(ra_ranges) : ~(ra_ranges[i].lo <= u /\ u < ra_ranges[i].hi)

\* `size` free units start at offset `at` and end at or before `limit`
RAFits(at, size, limit) ==
    /\ at + size <= limit
    /\ \A u \in at..(at + size - 1) : RAFreeUnit(u)

\* head rounded up to a multiple of align
RARoundUp(head, align) == ((head + align - 1) \div align) * align

\* every allocation the ring holds has one unit or more and lies in the buffer
RAOrdinary ==
    \A i \in 1..Len(ra_ranges) :
        ra_ranges[i].lo < ra_ranges[i].hi /\ ra_ranges[i].hi <= ra_capacity

\* C15: when alloc(size, align) returns None for one unit or more, size free
\* units exist neither from head rounded up to align to the end of the buffer
\* (to the tail when head < tail) nor from offset 0 to the tail.  Stated for
\* the rings whose allocations all have one unit or more.
C15_NoneOnlyWhenNothingFits ==
    [][ \A size \in RASizes \ {0} : \A align \in RAAligns :
            (/\ RAOrdinary
             /\ RingAlloc_alloc(size, align)
             /\ ~ra_panicked'
             /\ ~ra_last'.ret.some)
            => LET tail == IF ra_allocations = << >> THEN ra_capacity
                           ELSE Head(ra_allocations).start
                   limit == IF ra_head < tail THEN tail ELSE ra_capacity
               IN  /\ ~RAFits(RARoundUp(ra_head, align), size, limit)
                   /\ ~RAFits(0, size, tail) ]_vars

\* alloc(size, 1) called in the current state returns an offset
RAAllocWouldSucceed(size) ==
    LET out == RingAlloc_alloc_place(ra_capacity, ra_allocations, ra_head,
                                     ra_freed, size, 1)
    IN  ~out.overflow /\ out.ret.some

\* C16: available() is the largest size alloc accepts with align 1; it is
\* capacity when nothing is allocated.
C16_AvailableIsLargestAlloc ==
    ~ra_panicked
    => /\ \A s \in 0..RingAlloc_available : RAAllocWouldSucceed(s)
       /\ ~RAAllocWouldSucceed(RingAlloc_available + 1)
       /\ ra_allocations = << >> => RingAlloc_available = ra_capacity

\* a wrapped ring with room both behind head and in front of tail
C16_Witness ==
    /\ ~ra_panicked
    /\ ra_allocations # << >>
    /\ ra_head > Head(ra_allocations).start
    /\ Head(ra_allocations).start > 0
    /\ ra_head < ra_capacity
    /\ RingAlloc_available > 0

\* C40: the units alloc(size, align) returns start at a multiple of align, end
\* at or before capacity, and share no unit with an allocation the deque still
\* holds: neither with one not yet freed, nor with one that was freed while an
\* older allocation is not.
C40_AllocationsDisjoint ==
    [][ \A size \in RASizes : \A align \in RAAligns :
            (RingAlloc_alloc(size, align) /\ ra_last'.ret.some)
            => LET lo == ra_last'.ret.value
               IN  /\ lo % align = 0
                   /\ lo + size <= ra_capacity
                   /\ \A i \in 1..Len(ra_ranges) :
                          ~(/\ ra_ranges[i].lo < lo + size
                            /\ lo < ra_ranges[i].hi
                            /\ size > 0
                            /\ ra_ranges[i].lo < ra_ranges[i].hi) ]_vars

(***************************************************************************)
(* Properties of Graveyard.                                                *)
(***************************************************************************)
\* C17: a resource is destroyed at most once, and not before depth
\* begin_frame calls were made after it was passed to inter: neither inter
\* nor the first depth - 1 begin_frame calls destroy it.
C17_NotDestroyedEarly ==
    \A o \in Objects :
        /\ gy_destroyed[o] <= 1
        /\ gy_destroyed[o] = 1 => gy_age[o] >= Graveyard_depth
        /\ o \in Buried(gy_frames) => gy_destroyed[o] = 0

\* a resource has been through depth - 1 >= 1 begin_frame calls and is intact
C17_Witness ==
    /\ Graveyard_depth >= 2
    /\ ~gy_panicked
    /\ \E o \in Objects :
           /\ o \in Buried(gy_frames)
           /\ gy_age[o] = Graveyard_depth - 1
           /\ gy_destroyed[o] = 0

\* C18: the begin_frame call that is the depth-th since a resource was
\* passed to inter returns with the cursor on that resource's Frame, the
\* resource destroyed and the Frame empty.
C18_DestroyedAtDepth ==
    [][ \A o \in Objects :
            (/\ Graveyard_begin_frame
             /\ o \in Buried(gy_frames)
             /\ gy_age[o] = Graveyard_depth - 1)
            => /\ ~gy_panicked'
               /\ gy_cursor' \in DOMAIN gy_frames
               /\ o \in gy_frames[gy_cursor']
               /\ gy_frames'[gy_cursor'] = {}
               /\ gy_destroyed'[o] = 1 ]_vars

\* C19: clear returns with every Frame empty and every resource that was
\* in a Frame destroyed.
C19_ClearDestroysEverything ==
    [][ Graveyard_clear
        => /\ ~gy_panicked'
           /\ Buried(gy_frames') = {}
           /\ \A o \in Buried(gy_frames) : gy_destroyed'[o] = 1 ]_vars

\* C31: the cursor of a Graveyard of depth D is always a bucket index
\* (cursor < D); each begin_frame moves it to the next index mod D, so it
\* is k mod D after k calls, and neither begin_frame nor inter indexes
\* outside the buckets.
C31_CursorStaysInRange ==
    [][ /\ Graveyard_begin_frame
           => /\ gy_cursor' = (gy_cursor + 1) % Graveyard_depth
              /\ ~gy_panicked'
        /\ gy_cursor' \in DOMAIN gy_frames' ]_vars

(***************************************************************************)
(* Properties of StagingRing.                                              *)
(***************************************************************************)
\* C20: every call alloc(n, align) with n >= 1 returns an allocation; when
\* it replaces the buffer, the new buffer has max(n, 2 * size) bytes, the
\* ring state is reset and the second attempt succeeds.
C20_AllocAlwaysSucceeds ==
    [][ \A n \in SRSizes \ {0} : \A align \in SRAligns :
            StagingRing_alloc(n, align)
            => /\ sr_panicked' = "none"
               /\ sr_last'.ret.some
               /\ sr_last'.grew
                  => /\ sr_size' = Max2(n, 2 * sr_size)
                     /\ sr_tail' = 0
                     /\ sr_head' = sr_last'.ret.value ]_vars

\* the byte ranges [o1, o1 + n1) and [o2, o2 + n2) have a byte in common
SROverlap(o1, n1, o2, n2) == o1 < o2 + n2 /\ o2 < o1 + n1 /\ n1 > 0 /\ n2 > 0

\* C37: an Alloc returned by alloc does not overlap an Alloc naming the same
\* buffer that was returned during the current frame or one of the
\* frames.len() - 1 frames before it, whether or not alloc replaced the
\* buffer and reset the ring state in between.  Calls in which a subtraction
\* underflowed are left aside here: stated for the other calls alone.
C37_LiveAllocsDisjoint ==
    [][ \A n \in SRSizes : \A align \in SRAligns :
            (StagingRing_alloc(n, align) /\ sr_last'.ret.some /\ ~sr_wrapped')
            => \A a \in sr_live :
                   a.buffer = sr_buffer'
                   => ~SROverlap(a.offset, a.n, sr_last'.ret.value, n) ]_vars

(***************************************************************************)
(* Properties of AsyncQueue.                                               *)
(***************************************************************************)
\* the submissions that contain the command buffer cmd
AQSubmissionsOf(cmd) ==
    { i \in 1..Len(aq_submissions) : cmd \in Range(aq_submissions[i].cmds) }

\* C21: the event flush returned for a command buffer is set only when the
\* command buffer is part of a submission whose number batches_complete has
\* reached.
C21_EventSetOnlyAfterCompletion ==
    \A f \in aq_flushed :
        f.event \in aq_set
        => \E i \in AQSubmissionsOf(f.cmd) :
               aq_submissions[i].value <= aq_batches_complete

\* an event was set by drive while a later batch is still executing
C21_Witness ==
    /\ aq_pc \in { "idle", "run" }
    /\ aq_in_flight # << >>
    /\ aq_batches_complete < aq_batches_received
    /\ \E f \in aq_flushed : f.event \in aq_set

\* C22: a flush that takes the pending lock on a dead queue enqueues
\* nothing and returns Err(Dead); a command buffer pushed by flush is never
\* in two submissions, is in the pending batch until it is submitted, and
\* is in exactly one submission once destroy has taken the lock.
C22_NoWorkLostAcrossShutdown ==
    [][ /\ \A h \in AQHandles :
              AQHandle_flush_lock(h) /\ aq_dead
              => /\ aq_handle'[h] = "dead"
                 /\ aq_cmds' = aq_cmds
                 /\ aq_flushed' = aq_flushed
                 /\ aq_submissions' = aq_submissions
        /\ \A f \in aq_flushed' :
              /\ Cardinality(AQSubmissionsOf(f.cmd)') <= 1
              /\ AQSubmissionsOf(f.cmd)' = {} => f.cmd \in Range(aq_cmds')
              /\ aq_dead' => Cardinality(AQSubmissionsOf(f.cmd)') = 1 ]_vars

\* destroy has returned, having submitted a pending batch itself, a batch
\* went through submit_work before, and a later flush was refused
C22_Witness ==
    /\ aq_pc = "destroyed"
    /\ Len(aq_submissions) >= 2
    /\ aq_cmds # << >>
    /\ \E h \in AQHandles : aq_handle[h] = "dead"

\* C23: run marks the queue dead only when no handle minted from the seed
\* is alive.
C23_RunOutlivesHandles ==
    [][ (aq_running /\ ~aq_dead /\ aq_dead')
        => \A h \in AQHandles : aq_handle[h] \in { "seed", "destroyed" } ]_vars

\* C32: the values signalled on batch_available are strictly increasing over
\* the life of the queue, whichever handle signals: a flush that signals its
\* seq, and the last destroyed handle signalling highest_batch_sent + 1,
\* signal a value above every value signalled before (the semaphore holds
\* the largest of them).
C32_BatchAvailableIncreases ==
    [][ \A h \in AQHandles :
            /\ (AQHandle_flush_finish(h) /\ aq_h_seq[h] > aq_highest_batch_sent)
               => aq_h_seq[h] > aq_batch_available
            /\ (AQHandle_destroy_finish(h) /\ aq_refcount = 1)
               => aq_highest_batch_sent + 1 > aq_batch_available ]_vars

\* C33: a Handle::destroy that waits, holding the pending lock, for its
\* last flushed batch to complete does return, the driver being able to
\* submit that batch meanwhile and the device completing what is submitted.
C33_HandleDestroyReturns ==
    \A h \in AQHandles :
        (aq_handle[h] = "destroy_wait") ~> (aq_handle[h] = "destroy_release")

\* C34: between the driver's operations in_flight.len() is batches_received
\* - batches_completed and pending.seq is batches_received + 1, so that a
\* command buffer flushed with seq s goes into the submission that signals
\* s; broadcast_completions then never drains more events than in_flight
\* holds and sets the events of batches batches_completed + 1 ..= completed,
\* oldest first.
C34_DriverCountersAgree ==
    /\ ~aq_panicked
    /\ aq_pc \in { "idle", "run", "park" }
       => /\ Len(aq_in_flight) = aq_batches_received - aq_batches_completed
          /\ aq_seq = aq_batches_received + 1
          /\ aq_in_flight = [i \in 1..(aq_batches_received - aq_batches_completed)
                                |-> aq_batches_completed + i]
          /\ aq_set = 1..aq_batches_completed
    /\ \A f \in aq_flushed :
           \A k \in 1..Len(aq_submissions) :
               f.cmd \in Range(aq_submissions[k].cmds)
               => aq_submissions[k].value = f.seq

\* the driver has set the event of a first batch while a later batch, made
\* of command buffers flushed after the first was taken, is still in flight
C34_Witness ==
    /\ aq_pc \in { "idle", "run" }
    /\ aq_batches_completed >= 1
    /\ aq_in_flight # << >>
    /\ aq_batches_complete = aq_batches_received

(***************************************************************************)
(* Properties of the command buffers of ParallelQueue handles.             *)
(***************************************************************************)
\* C24: the command buffer of the Work that begin returns was last used by
\* no Work above the counter; begin takes a Work out of in_flight only when
\* the counter has reached its sequence number, and allocates from the pool
\* only when it has no spare buffer and none to take back.
C24_BeginReusesOnlyCompleted ==
    [][ \A h \in Handles :
            Handle_begin_acquire(h)
            => LET work == CHOOSE w \in pq_works' : w \notin pq_works
                   kept == Range(pq_in_flight'[h]) \ {work}
                   retired == Range(pq_in_flight[h]) \ kept
               IN  /\ \A w \in pq_works : w.cmd = work.cmd => w.time <= pq_semaphore
                   /\ \A w \in retired : w.time <= pq_semaphore
                   /\ pq_pool'[h] # pq_pool[h]
                      => pq_spare_cmds[h] = << >> /\ retired = {} ]_vars

\* a handle holds a Work whose command buffer served an earlier Work
C24_Witness ==
    \E h \in Handles : \E work \in pq_held[h] : \E w \in pq_works :
        /\ w.cmd = work.cmd
        /\ w.time < work.time

(***************************************************************************)
(* Properties of AppendBuffer.                                             *)
(***************************************************************************)
\* C25: an alloc that must grow (fill + size > capacity) makes the capacity
\* max(fill + size, 2 * capacity) and returns the buffer it replaced; every
\* buffer ever created is the current one or was returned by an alloc.
C25_GrowReturnsReplacedBuffer ==
    [][ \A size \in ABSizes :
            (AppendBuffer_alloc(size) /\ ab_fill + size > ab_capacity)
            => /\ ab_capacity' = Max2(ab_fill + size, 2 * ab_capacity)
               /\ ab_last'.old_buffer = Some(ab_buffer)
               /\ ab_created' = {ab_buffer'} \cup ab_returned' ]_vars


(***************************************************************************)
(* Properties of FenceFactory.                                             *)
(***************************************************************************)
\* the registrations now in the factory
FFRegisteredNow ==
    { FFPair(ff_fences[k], ff_tasks[k]) : k \in 1..Len(ff_fences) }

\* C26: a call of FenceFactory::poll made with a signalled fence registered
\* wakes and unregisters the signalled (fence, waker) pairs, leaves the
\* others registered each with its own waker, and comes to an end without
\* indexing fences past its end.
C26_PollStaysInBounds ==
    ff_entered # {}
    => /\ ff_pc # "panicked"
       /\ Len(ff_fences) = Len(ff_tasks)
       /\ ff_woken \subseteq ff_registered
       /\ FFRegisteredNow = ff_registered \ ff_woken
       /\ ff_pc = "idle" => ff_entered \subseteq ff_woken


(***************************************************************************)
(* Properties of the transfer Reactor.                                     *)
(***************************************************************************)
\* the oneshot senders of the operations in the batches submitted so far
RXSubmittedOps ==
    UNION { Range(rx_submitted[k].senders) : k \in 1..Len(rx_submitted) }

\* C27: run_for (or poll) returns Err(Disconnected) only once every
\* TransferHandle is dropped, and then every operation that was sent has
\* been recorded and submitted, no batch being left in pending; a call that
\* finds the channel empty while a handle exists does not return Err.
C27_DisconnectedAfterAllSubmitted ==
    rx_last = "Err"
    => /\ rx_handles = {}
       /\ rx_pending = None
       /\ RXSubmittedOps = 1..rx_sent

\* C39: the completion scan of run_for ends without indexing in_flight or
\* in_flight_fences past the end, keeps the two vectors aligned, and for each
\* signalled fence it meets removes the batch submitted with that fence,
\* notifies its senders and recycles the fence and the command buffer.
C39_ScanCompletes ==
    [][ Reactor_scan
        => /\ rx_pc' # "panicked"
           /\ Len(rx_in_flight') = Len(rx_in_flight_fences')
           /\ \A k \in 1..Len(rx_in_flight_fences) :
                  (rx_i + 1 = k /\ rx_i < rx_n /\ rx_in_flight_fences[k] \in rx_signalled)
                  => /\ Range(rx_in_flight[k].senders) \subseteq rx_notified'
                     /\ rx_in_flight_fences[k] \notin Range(rx_in_flight_fences')
                     /\ rx_in_flight[k] \notin Range(rx_in_flight')
                     /\ rx_in_flight_fences[k] \in Range(rx_spare_fences')
                     /\ rx_in_flight[k].cmd \in Range(rx_spare_cmds') ]_vars


\* C28: RingState::alloc places a request thus and not otherwise: with
\* head <= tail and size <= head, at head - size rounded down to align; with
\* head <= tail and size > head, at capacity - size rounded down to align if
\* that offset is above tail; with head > tail, at head - size rounded down
\* to align if that offset is above tail.  On success head becomes the
\* offset returned and tail stays; otherwise None is returned.
C28_AllocPlacement ==
    [][ \A size \in RSSizes : \A align \in RSAligns :
            RingState_alloc(size, align)
            => LET down(x) == x - (x % align)
                   from == IF rs_head <= rs_tail /\ size > rs_head
                           THEN rs_capacity ELSE rs_head
                   preferred == rs_head <= rs_tail /\ size <= rs_head
                   placed == /\ size <= from
                             /\ preferred \/ down(from - size) > rs_tail
               IN  /\ rs_last'.ret.some = placed
                   /\ placed => /\ rs_last'.ret.value = down(from - size)
                                /\ rs_head' = down(from - size)
                   /\ ~placed => rs_head' = rs_head
                   /\ rs_tail' = rs_tail ]_vars

\* after a release moved tail off 0, a request that no longer fitted below
\* head was placed at the end of the buffer
C28_Witness ==
    /\ rs_last.op = "alloc"
    /\ rs_last.ret.some
    /\ rs_tail > 0
    /\ rs_head > rs_tail
    /\ rs_last.size > 0
    /\ rs_last.ret.value + rs_last.size = rs_capacity


\* the sequence numbers handed out so far: those of the Works returned and
\* those fetched by the calls of begin now in progress
PQIssued ==
    { w.time : w \in pq_works } \cup { pq_time[h] : h \in { g \in Handles : pq_hpc[g] = "begin" } }

\* C29: however the begin calls of the handles interleave, the sequence
\* numbers handed out are pairwise distinct and after k calls are the range
\* 1..k: each call takes the number that follows those taken before, none
\* is skipped or taken twice, and 0 is not handed out.
C29_SequenceNumbersDense ==
    [][ /\ \A h \in Handles :
              Handle_begin_fetch_add(h)
              => /\ pq_time'[h] = Cardinality(PQIssued) + 1
                 /\ pq_time'[h] \notin PQIssued
                 /\ PQIssued' = PQIssued \cup {pq_time'[h]}
        /\ PQIssued' = 1..Cardinality(PQIssued')
        /\ \A w1, w2 \in pq_works' : w1.time = w2.time => w1 = w2 ]_vars

\* both handles hold Works and one of them has fetched a further number
C29_Witness ==
    /\ \A h \in Handles : pq_in_flight[h] # << >>
    /\ \E h \in Handles : pq_hpc[h] = "begin"
    /\ Cardinality(PQIssued) = MaxSeq


\* C30: every batch drive submits signals first_unsubmitted - 1, a value
\* above that of every earlier batch, so the counter only goes up; and after
\* any sequence of drive, park and drain calls first_unsignaled is at most
\* first_unsubmitted.
C30_SignalsIncrease ==
    [][ /\ Len(pq_gpu') > Len(pq_gpu)
           => LET batch == pq_gpu'[Len(pq_gpu')]
              IN  /\ batch.signal = pq_first_unsubmitted' - 1
                  /\ batch.signal > pq_semaphore
                  /\ \A i \in 1..Len(pq_gpu) : batch.signal > pq_gpu[i].signal
        /\ pq_semaphore' >= pq_semaphore
        /\ pq_first_unsignaled' <= pq_first_unsubmitted' ]_vars

\* a park has returned after a first batch completed, and a second batch is
\* with the device
C30_Witness ==
    /\ pq_pc = "idle"
    /\ pq_first_unsignaled > 1
    /\ pq_semaphore > 0
    /\ pq_gpu # << >>
    /\ pq_first_unsignaled < pq_first_unsubmitted

(***************************************************************************)
(* Properties of StagingArena.                                             *)
(***************************************************************************)
\* C38: the Alloc returned by alloc satisfies offset + size <= the size of
\* the buffer it names, and shares no byte with an Alloc of the same buffer
\* returned since the latest reset; also when the call replaces the buffer
\* and when it follows a call that did.
C38_AllocInsideBuffer ==
    [][ \A size \in SASizes :
            (StagingArena_alloc(size) /\ sa_state' = "live")
            => LET alloc == sa_last'.ret[1]
               IN  /\ alloc.offset + alloc.size <= sa_mem_size'
                   /\ \A a \in sa_live :
                          a.buffer = alloc.buffer
                          => ~SROverlap(a.offset, a.size,
                                        alloc.offset, alloc.size) ]_vars

=============================================================================
